---------------------------- MODULE Spec2Model ----------------------------
(***************************************************************************)
(* State-machine model of the study-assistant front end: the application   *)
(* shell (uploaded files, detected topic, toast, quiz suggestion), the     *)
(* upload intake (PdfUploader), the quiz engine (Quiz), the question-paper *)
(* generator (QuestionPaper) and the resources browser (Resources).        *)
(*                                                                         *)
(* Conventions.                                                            *)
(*  - A JavaScript string on which the code does character work (split,    *)
(*    trim, toLowerCase, includes, parseInt) is a sequence of one-character*)
(*    strings; a string that is only stored and compared is a TLA+ string. *)
(*  - null / undefined of an object-valued state is the empty sequence     *)
(*    Null, a present value x is <<x>>.                                    *)
(*  - A pending setTimeout is an entry of a timer queue that holds the     *)
(*    values its callback closed over; timers of one queue have the same   *)
(*    delay and fire first-in first-out.                                   *)
(*  - One action is one event handler or timer callback together with the  *)
(*    re-render and the effects React runs before the next event.          *)
(***************************************************************************)
EXTENDS Integers, Sequences, FiniteSets, TLC

VARIABLES
    \* ---- application shell (App)
    route,               \* current client-side route
    uploadedFiles,       \* useState([]): sequence of UploadedFile records
    detectedTopic,       \* useState(''): characters
    showQuizSuggestion,  \* useState(false)
    showToast,           \* useState({show, message, type})
    toastTimers,         \* number of pending 3 s toast-dismissal timers
    suggestionTimer,     \* pending 5 s suggestion timers: the list whose change started each
    \* ---- upload intake (PdfUploader)
    selectedFile,        \* useState(null)
    upIsLoading,         \* useState(false)
    error,               \* useState(null)
    upTimers,            \* pending 2 s upload timers: the file each closed over
    submitted,           \* the file of the latest handleFileChange call, Null before
    accepted,            \* the fileData of every accepted submission, in submission order
    \* ---- quiz engine (Quiz), mounted on "/quiz" when a file is uploaded
    difficulty,          \* prop difficulty
    quizTimeLimit,       \* prop timeLimit: Null, or <<seconds>>
    timeRemaining,       \* useState(timeLimit)
    tickTimer,           \* TRUE while the 1 s timer of the countdown effect is pending
    questions,           \* useState([])
    currentQuestion,     \* useState(0): 0-based index
    score,               \* useState(0)
    selectedAnswer,      \* useState(''): characters
    showResult,          \* useState(false)
    isLoading,           \* useState(true)
    showExplanation,     \* useState(false)
    userAnswers,         \* useState([]): the transcript
    isAnswered,          \* useState(false)
    loadTimers,          \* pending 1.5 s load timers: the props each closed over
    onCompleteArg,       \* argument of the latest onComplete call, Null before
    onCompleteCalls,     \* number of onComplete calls
    answerCalls,         \* handleAnswer calls since the question became current (0, 1, 2 = more)
    \* ---- question-paper generator (QuestionPaperPage, QuestionPaper)
    paperDifficulty,     \* QuestionPaperPage useState('medium'), prop difficulty
    paper,               \* useState(null)
    isGenerating,        \* useState(false)
    selectedTopics,      \* useState([])
    questionCount,       \* useState({ mcq: 10, short: 5, long: 3 })
    timeLimit,           \* useState(120)
    genTimers,           \* pending 3 s generation timers: the render each closed over
    requestedCount,      \* questionCount when Generate was last clicked, Null before
    producedCount,       \* requestedCount of the request that produced `paper`
    edits,               \* configuration changes made so far
    \* ---- resources browser (Resources)
    searchQuery,         \* prop searchQuery: characters
    resources,           \* useState([])
    filteredResources,   \* useState([])
    resIsLoading,        \* useState(true)
    selectedCategory,    \* useState('all')
    favorites,           \* useState([]): resource ids
    lastToggle,          \* id and previous favorites of the latest toggleFavorite call, Null before
    resTimers,           \* pending 1 s catalog timers: the uploadedFiles each closed over
    catalogRuns,         \* every run of generateResources so far: <<files, ids>>
    \* ---- the whole tree
    crashed,             \* a render or an effect threw: React has torn the tree down
    orphans,             \* pending timers of components that have been unmounted
    navigations,         \* route changes made so far
    uncaught,            \* the error the latest event handler threw and nothing caught, Null before
    \* ---- bookkeeping
    lastOp               \* name of the handler that made the last step

shellVars == <<route, uploadedFiles, detectedTopic, showQuizSuggestion, showToast,
               toastTimers, suggestionTimer>>
uploaderVars == <<selectedFile, upIsLoading, error, upTimers, submitted, accepted>>

countdownVars == <<quizTimeLimit, timeRemaining, tickTimer>>

quizVars == <<difficulty, questions, currentQuestion, score, selectedAnswer, showResult,
              isLoading, showExplanation, userAnswers, isAnswered, loadTimers,
              onCompleteArg, onCompleteCalls, answerCalls, countdownVars>>

paperVars == <<paperDifficulty, paper, isGenerating, selectedTopics, questionCount,
               timeLimit, genTimers, requestedCount, producedCount, edits>>
resVars == <<searchQuery, resources, filteredResources, resIsLoading, selectedCategory,
             favorites, lastToggle, resTimers, catalogRuns>>

navVars == <<orphans, navigations, uncaught>>

vars == <<shellVars, uploaderVars, quizVars, paperVars, resVars, crashed, navVars, lastOp>>

Null == <<>>
Some(x) == <<x>>

\* ------------------------------------------------------------------------
\* Bounds of the model
\* ------------------------------------------------------------------------
MaxFiles == 2        \* files submitted to the intake in one run
MaxCompletions == 2  \* onComplete calls of one quiz
MaxEdits == 3        \* changes of the question-paper configuration in one run
MaxToastTimers == 2  \* toast-dismissal timers pending at once
MaxNavigations == 2  \* route changes in one run

\* ------------------------------------------------------------------------
\* Timers of unmounted components (no component clears its timer on unmount;
\* timers of one kind have the same delay, so the older one fires first)
\* ------------------------------------------------------------------------
HasOrphan(kind) == \E i \in 1..Len(orphans) : orphans[i].kind = kind
OrphanCount(kind) == Cardinality({ i \in 1..Len(orphans) : orphans[i].kind = kind })
FirstOrphan(kind) ==
    CHOOSE i \in 1..Len(orphans) :
        orphans[i].kind = kind /\ \A j \in 1..(i - 1) : orphans[j].kind # kind
RemoveAt(s, i) == SubSeq(s, 1, i - 1) \o SubSeq(s, i + 1, Len(s))

\* ------------------------------------------------------------------------
\* Strings
\* ------------------------------------------------------------------------
\* The index of the first occurrence of character c in s, 0 when absent.
IndexOf(s, c) ==
    IF \E i \in 1..Len(s) : s[i] = c
    THEN CHOOSE i \in 1..Len(s) : s[i] = c /\ \A j \in 1..(i - 1) : s[j] # c
    ELSE 0

\* The index of the last occurrence of character c in s, 0 when absent.
LastIndexOf(s, c) ==
    IF \E i \in 1..Len(s) : s[i] = c
    THEN CHOOSE i \in 1..Len(s) : s[i] = c /\ \A j \in (i + 1)..Len(s) : s[j] # c
    ELSE 0

\* s.split(c)[0]: the part of s before the first c, all of s when it has none.
SplitHead(s, c) ==
    IF IndexOf(s, c) = 0 THEN s ELSE SubSeq(s, 1, IndexOf(s, c) - 1)

\* s.trim(): s without its leading and trailing white space.
WhiteSpace == { " ", "\t", "\n" }
Trim(s) ==
    IF \A i \in 1..Len(s) : s[i] \in WhiteSpace THEN <<>>
    ELSE LET first == CHOOSE i \in 1..Len(s) :
                          s[i] \notin WhiteSpace /\ \A j \in 1..(i - 1) : s[j] \in WhiteSpace
             last == CHOOSE i \in 1..Len(s) :
                          s[i] \notin WhiteSpace /\ \A j \in (i + 1)..Len(s) : s[j] \in WhiteSpace
         IN  SubSeq(s, first, last)

\* ------------------------------------------------------------------------
\* Quiz engine: Quiz
\* ------------------------------------------------------------------------
\* questionBank of generateQuestions, for the topic the effect closed over.
questionBank(topic) ==
    [ easy |-> <<
        [ id |-> 1,
          text |-> <<"W","h","a","t"," ","i","s"," ","t","h","e"," ","b","a","s","i","c"," ","d","e","f","i","n","i","t","i","o","n"," ","o","f"," ">> \o topic \o <<"?">>,
          options |-> << <<"O","p","t","i","o","n"," ","A"," ","-"," ","B","a","s","i","c"," ","c","o","n","c","e","p","t">>, <<"O","p","t","i","o","n"," ","B"," ","-"," ","A","d","v","a","n","c","e","d"," ","c","o","n","c","e","p","t">>,
                         <<"O","p","t","i","o","n"," ","C"," ","-"," ","C","o","m","p","l","e","x"," ","t","h","e","o","r","y">>, <<"O","p","t","i","o","n"," ","D"," ","-"," ","A","b","s","t","r","a","c","t"," ","i","d","e","a">> >>,
          answer |-> <<"O","p","t","i","o","n"," ","A"," ","-"," ","B","a","s","i","c"," ","c","o","n","c","e","p","t">>,
          explanation |-> topic \o <<" ","i","s"," ","f","u","n","d","a","m","e","n","t","a","l","l","y"," ","a","b","o","u","t"," ","u","n","d","e","r","s","t","a","n","d","i","n","g"," ","b","a","s","i","c"," ","c","o","n","c","e","p","t","s"," ","a","n","d"," ","p","r","i","n","c","i","p","l","e","s",".">>,
          type |-> "multiple-choice" ],
        [ id |-> 2,
          text |-> <<"W","h","i","c","h"," ","o","f"," ","t","h","e"," ","f","o","l","l","o","w","i","n","g"," ","i","s"," ","m","o","s","t"," ","r","e","l","a","t","e","d"," ","t","o"," ">> \o topic \o <<"?">>,
          options |-> << <<"R","e","l","a","t","e","d"," ","c","o","n","c","e","p","t"," ","A">>, <<"U","n","r","e","l","a","t","e","d"," ","c","o","n","c","e","p","t"," ","B">>,
                         <<"D","i","f","f","e","r","e","n","t"," ","f","i","e","l","d"," ","C">>, <<"R","a","n","d","o","m"," ","t","o","p","i","c"," ","D">> >>,
          answer |-> <<"R","e","l","a","t","e","d"," ","c","o","n","c","e","p","t"," ","A">>,
          explanation |-> <<"R","e","l","a","t","e","d"," ","c","o","n","c","e","p","t"," ","A"," ","i","s"," ","d","i","r","e","c","t","l","y"," ","c","o","n","n","e","c","t","e","d"," ","t","o"," ">> \o topic \o <<" ","i","n"," ","f","u","n","d","a","m","e","n","t","a","l"," ","w","a","y","s",".">>,
          type |-> "multiple-choice" ] >>,
      medium |-> <<
        [ id |-> 1,
          text |-> <<"E","x","p","l","a","i","n"," ","t","h","e"," ","k","e","y"," ","p","r","i","n","c","i","p","l","e","s"," ","o","f"," ">> \o topic \o <<" ","a","n","d"," ","t","h","e","i","r"," ","a","p","p","l","i","c","a","t","i","o","n","s",".">>,
          type |-> "short-answer",
          sampleAnswer |-> <<"K","e","y"," ","p","r","i","n","c","i","p","l","e","s"," ","i","n","c","l","u","d","e"," ","u","n","d","e","r","s","t","a","n","d","i","n","g"," ","c","o","r","e"," ","c","o","n","c","e","p","t","s"," ","a","n","d"," ","a","p","p","l","y","i","n","g"," ","t","h","e","m"," ","e","f","f","e","c","t","i","v","e","l","y",".">>,
          points |-> 10 ],
        [ id |-> 2,
          text |-> <<"W","h","a","t"," ","a","r","e"," ","t","h","e"," ","m","a","i","n"," ","a","d","v","a","n","t","a","g","e","s"," ","a","n","d"," ","d","i","s","a","d","v","a","n","t","a","g","e","s"," ","o","f"," ">> \o topic \o <<"?">>,
          options |-> << <<"A","d","v","a","n","t","a","g","e","s"," ","o","u","t","w","e","i","g","h"," ","d","i","s","a","d","v","a","n","t","a","g","e","s">>, <<"D","i","s","a","d","v","a","n","t","a","g","e","s"," ","o","u","t","w","e","i","g","h"," ","a","d","v","a","n","t","a","g","e","s">>,
                         <<"B","a","l","a","n","c","e","d"," ","p","r","o","s"," ","a","n","d"," ","c","o","n","s">>, <<"N","o"," ","c","l","e","a","r"," ","a","d","v","a","n","t","a","g","e","s"," ","o","r"," ","d","i","s","a","d","v","a","n","t","a","g","e","s">> >>,
          answer |-> <<"B","a","l","a","n","c","e","d"," ","p","r","o","s"," ","a","n","d"," ","c","o","n","s">>,
          explanation |-> <<"M","o","s","t"," ","t","o","p","i","c","s"," ","h","a","v","e"," ","b","o","t","h"," ","a","d","v","a","n","t","a","g","e","s"," ","a","n","d"," ","d","i","s","a","d","v","a","n","t","a","g","e","s"," ","t","h","a","t"," ","n","e","e","d"," ","t","o"," ","b","e"," ","c","a","r","e","f","u","l","l","y"," ","c","o","n","s","i","d","e","r","e","d",".">>,
          type |-> "multiple-choice" ] >>,
      hard |-> <<
        [ id |-> 1,
          text |-> <<"A","n","a","l","y","z","e"," ","t","h","e"," ","c","o","m","p","l","e","x"," ","r","e","l","a","t","i","o","n","s","h","i","p"," ","b","e","t","w","e","e","n"," ">> \o topic \o <<" ","a","n","d"," ","i","t","s"," ","b","r","o","a","d","e","r"," ","i","m","p","l","i","c","a","t","i","o","n","s",".">>,
          type |-> "long-answer",
          sampleAnswer |-> <<"T","h","i","s"," ","r","e","q","u","i","r","e","s"," ","d","e","e","p"," ","a","n","a","l","y","s","i","s"," ","o","f"," ","i","n","t","e","r","c","o","n","n","e","c","t","e","d"," ","c","o","n","c","e","p","t","s"," ","a","n","d"," ","t","h","e","i","r"," ","f","a","r","-","r","e","a","c","h","i","n","g"," ","e","f","f","e","c","t","s",".">>,
          points |-> 20 ],
        [ id |-> 2,
          text |-> <<"W","h","i","c","h"," ","a","d","v","a","n","c","e","d"," ","c","o","n","c","e","p","t"," ","b","e","s","t"," ","d","e","s","c","r","i","b","e","s"," ","t","h","e"," ","t","h","e","o","r","e","t","i","c","a","l"," ","f","r","a","m","e","w","o","r","k"," ","o","f"," ">> \o topic \o <<"?">>,
          options |-> << <<"A","d","v","a","n","c","e","d"," ","F","r","a","m","e","w","o","r","k"," ","A">>, <<"C","o","m","p","l","e","x"," ","T","h","e","o","r","y"," ","B">>,
                         <<"I","n","t","e","g","r","a","t","e","d"," ","M","o","d","e","l"," ","C">>, <<"H","o","l","i","s","t","i","c"," ","A","p","p","r","o","a","c","h"," ","D">> >>,
          answer |-> <<"I","n","t","e","g","r","a","t","e","d"," ","M","o","d","e","l"," ","C">>,
          explanation |-> <<"I","n","t","e","g","r","a","t","e","d"," ","m","o","d","e","l","s"," ","p","r","o","v","i","d","e"," ","t","h","e"," ","m","o","s","t"," ","c","o","m","p","r","e","h","e","n","s","i","v","e"," ","u","n","d","e","r","s","t","a","n","d","i","n","g"," ","o","f"," ","c","o","m","p","l","e","x"," ","t","o","p","i","c","s",".">>,
          type |-> "multiple-choice" ] >> ]

\* questionBank[difficulty]. The lookup of a key follows the prototype chain
\* of the object literal: an own property is the bank, "constructor" is the
\* function Object inherited from Object.prototype, and a key found nowhere
\* is undefined.
BankLookup(topic, d) ==
    IF d \in DOMAIN questionBank(topic)
    THEN [tag |-> "array", v |-> questionBank(topic)[d]]
    ELSE IF d = "constructor" THEN [tag |-> "function", v |-> <<>>]
    ELSE [tag |-> "undefined", v |-> <<>>]

\* selectedQuestions = questionBank[difficulty] || questionBank.medium
SelectedQuestions(topic, d) ==
    IF BankLookup(topic, d).tag # "undefined"
    THEN BankLookup(topic, d)
    ELSE [tag |-> "array", v |-> questionBank(topic).medium]

\* setQuestions(x): React calls a function argument as an updater on the
\* previous state, and Object(prev) of an array is that array.
SetQuestions(x, prev) == IF x.tag = "function" THEN prev ELSE x.v

\* The difficulty values a parent passes; QuizPage passes none (the default).
Difficulties == { "easy", "medium", "hard", "expert", "constructor" }

\* topic prop of QuizPage: detectedTopic || uploadedFiles[0].topics[0]
QuizTopic(topicState, files) ==
    IF topicState # <<>> THEN topicState ELSE files[1].topics[1]

\* What QuizPage renders under its heading: the Quiz, or the empty state with
\* the Upload File button.
QuizPageViewAlways(files) == "Quiz"
QuizPageView(files) == IF Len(files) > 0 THEN "Quiz" ELSE "No Content Available"

QuizMounted == route = "/quiz" /\ QuizPageView(uploadedFiles) = "Quiz" /\ ~crashed

\* The question view is on screen: the render returns the loader while
\* isLoading and the result view while showResult, before it reaches the
\* option buttons, the textarea and the Next button.
QuestionShownInResult == QuizMounted /\ ~isLoading
QuestionShown == QuizMounted /\ ~isLoading /\ ~showResult

\* The question view reads questions[currentQuestion].text: a TypeError when
\* that element is undefined.
RenderThrows(qs, cq, loading, result) == ~loading /\ ~result /\ cq + 1 > Len(qs)

\* The countdown effect, deps [timeRemaining, showResult, timeLimit]:
\* timeLimit && timeRemaining > 0 && !showResult starts the 1 s timer (the
\* cleanup clears it before the next run and on unmount) ...
CountdownRunsWhenComplete(limit, tr, result) ==
    limit # Null /\ limit[1] # 0 /\ tr # Null /\ tr[1] > 0
CountdownRuns(limit, tr, result) ==
    limit # Null /\ limit[1] # 0 /\ tr # Null /\ tr[1] > 0 /\ ~result

\* ... else timeRemaining === 0 calls handleTimeUp.
TimeIsUp(limit, tr, result) == ~CountdownRuns(limit, tr, result) /\ tr = Some(0)

\* The argument handleTimeUp passes to onComplete.
TimeUpArg == [score |-> score, total |-> Len(questions), timeUp |-> TRUE]

\* The countdown effect on the values tr and result a handler has just set.
\* handleTimeUp sets showResult; when that changes showResult the effect runs
\* once more and, timeRemaining still being 0, calls handleTimeUp again.
CountdownEffect(tr, result) ==
    /\ tickTimer' = CountdownRuns(quizTimeLimit, tr, result)
    /\ IF TimeIsUp(quizTimeLimit, tr, result)
       THEN /\ showResult' = TRUE
            /\ onCompleteArg' = Some(TimeUpArg)
            /\ onCompleteCalls' = onCompleteCalls + (IF result THEN 1 ELSE 2)
       ELSE /\ showResult' = result
            /\ UNCHANGED <<onCompleteArg, onCompleteCalls>>

\* The suggestion effect of App, deps [uploadedFiles]. Its cleanup, run before
\* the effect runs again and when App unmounts, clears the timer the previous
\* run started; the effect then starts a timer when the list is non-empty.
SuggestionCleanupNone(pending) == pending
SuggestionCleanup(pending) == <<>>
SuggestionEffect(pending, files) ==
    SuggestionCleanup(pending) \o (IF Len(files) > 0 THEN <<files>> ELSE <<>>)

\* What a step that may throw does to App: when the tree is torn down, the
\* cleanup of the suggestion effect clears its timer.
ShellOnCrash ==
    /\ suggestionTimer' = IF crashed' THEN SuggestionCleanup(suggestionTimer) ELSE suggestionTimer
    /\ UNCHANGED <<route, uploadedFiles, detectedTopic, showQuizSuggestion, showToast,
                   toastTimers>>

\* The timer callback generateQuestions of the load effect.
GenerateQuestions ==
    /\ QuizMounted
    /\ loadTimers # <<>>
    /\ LET t == Head(loadTimers)
       IN  questions' = SetQuestions(SelectedQuestions(t.topic, t.difficulty), questions)
    /\ isLoading' = FALSE
    /\ loadTimers' = Tail(loadTimers)
    /\ crashed' = RenderThrows(questions', currentQuestion, FALSE, showResult)
    /\ tickTimer' = (tickTimer /\ ~crashed')
    /\ UNCHANGED <<quizTimeLimit, timeRemaining>>
    /\ lastOp' = "generateQuestions"
    /\ UNCHANGED navVars
    /\ UNCHANGED <<difficulty, currentQuestion, score, selectedAnswer, showResult,
                   showExplanation, userAnswers, isAnswered, onCompleteArg,
                   onCompleteCalls, answerCalls>>
    /\ UNCHANGED <<uploaderVars, paperVars, resVars>>
    /\ ShellOnCrash

\* isCorrect of handleAnswer.
IsCorrectUntrimmed(q, answer) ==
    IF q.type = "multiple-choice" THEN answer = q.answer ELSE Len(answer) > 0
IsCorrect(q, answer) ==
    IF q.type = "multiple-choice" THEN answer = q.answer ELSE Len(Trim(answer)) > 0

\* currentQ.points || 1
Points(q) == IF "points" \in DOMAIN q /\ q.points # 0 THEN q.points ELSE 1

\* if (isCorrect) setScore(prev => prev + (currentQ.points || 1))
ScoreAfterPenalty(prev, q, isCorrect) == IF isCorrect THEN prev + Points(q) ELSE prev - 1
ScoreAfter(prev, q, isCorrect) == IF isCorrect THEN prev + Points(q) ELSE prev

\* if (isAnswered) return
AnswerIgnoredNever == FALSE
AnswerIgnored == isAnswered

\* The values handleAnswer is called with for question q: an option of a
\* choice question, the text of the textarea otherwise.
TextInputs == { <<>>, <<" "," ">>, <<"o","k">>, <<" ","o","k"," ">> }
AnswerInputs(q) ==
    IF q.type = "multiple-choice" THEN { q.options[i] : i \in 1..Len(q.options) }
    ELSE TextInputs

handleAnswer(answer) ==
    /\ QuestionShown
    /\ IF AnswerIgnored
       THEN UNCHANGED <<selectedAnswer, isAnswered, score, userAnswers, showExplanation>>
       ELSE LET currentQ == questions[currentQuestion + 1]
                isCorrect == IsCorrect(currentQ, answer)
            IN  /\ selectedAnswer' = answer
                /\ isAnswered' = TRUE
                /\ score' = ScoreAfter(score, currentQ, isCorrect)
                /\ userAnswers' = Append(userAnswers,
                       [question |-> currentQ.text, userAnswer |-> answer,
                        correct |-> isCorrect])
                /\ showExplanation' = TRUE
    /\ answerCalls' = IF answerCalls = 0 THEN 1 ELSE 2
    /\ lastOp' = "handleAnswer"
    /\ UNCHANGED countdownVars
    /\ UNCHANGED navVars
    /\ UNCHANGED <<difficulty, questions, currentQuestion, showResult, isLoading,
                   loadTimers, onCompleteArg, onCompleteCalls, crashed>>
    /\ UNCHANGED <<shellVars, uploaderVars, paperVars, resVars>>

\* onChange of the textarea of a free-response question (disabled once answered).
TypeAnswer(text) ==
    /\ QuestionShown
    /\ questions[currentQuestion + 1].type # "multiple-choice"
    /\ ~isAnswered
    /\ selectedAnswer' = text
    /\ lastOp' = "typeAnswer"
    /\ UNCHANGED countdownVars
    /\ UNCHANGED navVars
    /\ UNCHANGED <<difficulty, questions, currentQuestion, score, showResult, isLoading,
                   showExplanation, userAnswers, isAnswered, loadTimers, onCompleteArg,
                   onCompleteCalls, answerCalls, crashed>>
    /\ UNCHANGED <<shellVars, uploaderVars, paperVars, resVars>>

\* Math.round((score / total) * 100) for total > 0
Percentage(s, total) == (200 * s + total) \div (2 * total)

\* currentQuestion + 1 < questions.length
HasNextQuestionInclusive(cq, qs) == cq + 1 <= Len(qs)
HasNextQuestion(cq, qs) == cq + 1 < Len(qs)

\* nextQuestion; its button is rendered once the question is answered.
nextQuestion ==
    /\ QuestionShown
    /\ isAnswered
    /\ IF HasNextQuestion(currentQuestion, questions)
       THEN /\ currentQuestion' = currentQuestion + 1
            /\ selectedAnswer' = <<>>
            /\ showExplanation' = FALSE
            /\ isAnswered' = FALSE
            /\ answerCalls' = 0
            /\ UNCHANGED <<showResult, onCompleteArg, onCompleteCalls, tickTimer>>
       ELSE /\ onCompleteCalls < MaxCompletions
            /\ showResult' = TRUE
            /\ tickTimer' = CountdownRuns(quizTimeLimit, timeRemaining, TRUE)
            /\ onCompleteArg' = Some([score |-> score, total |-> Len(questions),
                                      userAnswers |-> userAnswers,
                                      percentage |-> Percentage(score, Len(questions))])
            /\ onCompleteCalls' = onCompleteCalls + 1
            /\ UNCHANGED <<currentQuestion, selectedAnswer, showExplanation, isAnswered,
                           answerCalls>>
    /\ lastOp' = "nextQuestion"
    /\ UNCHANGED <<quizTimeLimit, timeRemaining>>
    /\ UNCHANGED navVars
    /\ UNCHANGED <<difficulty, questions, score, isLoading, userAnswers, loadTimers, crashed>>
    /\ UNCHANGED <<shellVars, uploaderVars, paperVars, resVars>>

\* setTimeRemaining(timeLimit) of resetQuiz: the remaining time after a reset,
\* for the configured limit and the remaining time before it.
TimeAfterResetKept(limit, tr) == tr
TimeAfterReset(limit, tr) == limit

\* resetQuiz, the Retake button of the result view.
resetQuiz ==
    /\ QuizMounted /\ ~isLoading /\ showResult
    /\ currentQuestion' = 0
    /\ score' = 0
    /\ selectedAnswer' = <<>>
    /\ timeRemaining' = TimeAfterReset(quizTimeLimit, timeRemaining)
    /\ CountdownEffect(timeRemaining', FALSE)
    /\ showExplanation' = FALSE
    /\ userAnswers' = <<>>
    /\ isAnswered' = FALSE
    /\ answerCalls' = 0
    /\ crashed' = RenderThrows(questions, 0, FALSE, FALSE)
    /\ lastOp' = "resetQuiz"
    /\ UNCHANGED navVars
    /\ UNCHANGED <<difficulty, quizTimeLimit, questions, isLoading, loadTimers>>
    /\ UNCHANGED <<uploaderVars, paperVars, resVars>>
    /\ ShellOnCrash

\* The 1 s timer callback of the countdown effect, setTimeRemaining(
\* timeRemaining - 1), and the effect on the new value.
Tick ==
    /\ QuizMounted
    /\ tickTimer
    /\ timeRemaining[1] = 1 => onCompleteCalls < MaxCompletions
    /\ timeRemaining' = Some(timeRemaining[1] - 1)
    /\ CountdownEffect(timeRemaining', showResult)
    /\ lastOp' = "tick"
    /\ UNCHANGED navVars
    /\ UNCHANGED <<difficulty, quizTimeLimit, questions, currentQuestion, score,
                   selectedAnswer, isLoading, showExplanation, userAnswers, isAnswered,
                   loadTimers, answerCalls, crashed>>
    /\ UNCHANGED <<shellVars, uploaderVars, paperVars, resVars>>

\* The Finish button of the result view: onComplete({score, total}).
FinishClick ==
    /\ QuizMounted /\ ~isLoading /\ showResult
    /\ onCompleteCalls < MaxCompletions
    /\ onCompleteArg' = Some([score |-> score, total |-> Len(questions)])
    /\ onCompleteCalls' = onCompleteCalls + 1
    /\ lastOp' = "finish"
    /\ UNCHANGED countdownVars
    /\ UNCHANGED navVars
    /\ UNCHANGED <<difficulty, questions, currentQuestion, score, selectedAnswer,
                   showResult, isLoading, showExplanation, userAnswers, isAnswered,
                   loadTimers, answerCalls, crashed>>
    /\ UNCHANGED <<shellVars, uploaderVars, paperVars, resVars>>

\* The state of a Quiz that is not mounted: its useState initial values.
QuizIdle ==
    /\ questions = <<>>
    /\ currentQuestion = 0
    /\ score = 0
    /\ selectedAnswer = <<>>
    /\ showResult = FALSE
    /\ isLoading = TRUE
    /\ showExplanation = FALSE
    /\ userAnswers = <<>>
    /\ isAnswered = FALSE
    /\ onCompleteArg = Null
    /\ onCompleteCalls = 0
    /\ answerCalls = 0
    /\ timeRemaining = quizTimeLimit
    /\ tickTimer = CountdownRuns(quizTimeLimit, quizTimeLimit, FALSE)

\* What a change of App's state does to the Quiz on "/quiz": the load effect
\* runs again when the topic prop changed (and once when QuizPage first
\* renders the Quiz), each run starting a 1.5 s timer; nothing else is reset.
QuizOnShellChange ==
    IF route = "/quiz" /\ Len(uploadedFiles') > 0 /\ ~crashed
    THEN /\ loadTimers' =
              IF Len(uploadedFiles) = 0
                 \/ QuizTopic(detectedTopic', uploadedFiles') # QuizTopic(detectedTopic, uploadedFiles)
              THEN Append(loadTimers, [topic |-> QuizTopic(detectedTopic', uploadedFiles'),
                                       difficulty |-> difficulty])
              ELSE loadTimers
         /\ UNCHANGED <<difficulty, questions, currentQuestion, score, selectedAnswer,
                        showResult, isLoading, showExplanation, userAnswers, isAnswered,
                        onCompleteArg, onCompleteCalls, answerCalls, countdownVars>>
    ELSE UNCHANGED quizVars

\* ------------------------------------------------------------------------
\* Question-paper generator: QuestionPaperPage and QuestionPaper
\* ------------------------------------------------------------------------
DigitChars == <<"0", "1", "2", "3", "4", "5", "6", "7", "8", "9">>
IsDigit(c) == \E i \in 1..Len(DigitChars) : DigitChars[i] = c
DigitValue(c) == (CHOOSE i \in 1..Len(DigitChars) : DigitChars[i] = c) - 1

\* The value of the longest prefix of decimal digits of s after acc, and
\* whether any digit was read.
RECURSIVE ReadDigits(_, _, _)
ReadDigits(s, acc, any) ==
    IF s # <<>> /\ IsDigit(Head(s))
    THEN ReadDigits(Tail(s), 10 * acc + DigitValue(Head(s)), TRUE)
    ELSE [nan |-> ~any, n |-> acc]

\* parseInt(s): leading white space, an optional sign, then decimal digits up
\* to the first other character; NaN when no digit is read.
ParseInt(s) ==
    LET t == IF Trim(s) = <<>> THEN <<>>
             ELSE SubSeq(s, CHOOSE i \in 1..Len(s) :
                               s[i] \notin WhiteSpace /\ \A j \in 1..(i - 1) : s[j] \in WhiteSpace,
                         Len(s))
        signed == t # <<>> /\ Head(t) \in {"-", "+"}
        r == ReadDigits(IF signed THEN Tail(t) ELSE t, 0, FALSE)
    IN  [nan |-> r.nan, n |-> IF signed /\ Head(t) = "-" THEN 0 - r.n ELSE r.n]

\* parseInt(e.target.value) || 0
ParsedCount(text) == IF ParseInt(text).nan THEN 0 ELSE ParseInt(text).n

\* What the user types into a count input.
CountTexts == { <<"-","1">>, <<"2">>, <<>> }
CountFields == { "mcq", "short", "long" }

\* The time limits the range input is moved to.
TimeLimits == { 30, 120 }

\* availableTopics = uploadedFiles.flatMap(file => file.topics || [...])
RECURSIVE FlatTopics(_)
FlatTopics(files) ==
    IF files = <<>> THEN <<>> ELSE Head(files).topics \o FlatTopics(Tail(files))
availableTopics == FlatTopics(uploadedFiles)

\* What QuestionPaperPage renders under its heading.
PaperPageViewAlways(files) == "QuestionPaper"
PaperPageView(files) == IF Len(files) > 0 THEN "QuestionPaper" ELSE "No Content Available"

PaperMounted ==
    route = "/question-paper" /\ PaperPageView(uploadedFiles) = "QuestionPaper" /\ ~crashed

\* calculateTotalMarks of the render whose questionCount is qc.
calculateTotalMarks(qc) == (qc.mcq * 1) + (qc.short * 3) + (qc.long * 10)

\* The questionCount the timer callback of generatePaper reads: the one of
\* the render in which Generate was clicked.
TimerCountLive(closure) == questionCount
TimerCount(closure) == closure.questionCount

\* The length Array.from({ length: n }, ...) gives its result: ToLength(n).
ArrayLength(n) == IF n < 0 THEN 0 ELSE n

\* selectedTopics[0] || phrase
FirstTopicOr(topics, phrase) ==
    IF topics # <<>> /\ topics[1] # <<>> THEN topics[1] ELSE phrase

\* Array.from({ length: n }, (_, i) => ({ id: i + 1, ..., marks, difficulty }));
\* the question text is a fixed template around id and `about`.
PaperQuestions(n, about, marks, d) ==
    [i \in 1..ArrayLength(n) |-> [id |-> i, about |-> about, marks |-> marks, difficulty |-> d]]

\* selectedTopics.join(', ')
RECURSIVE Join(_, _)
Join(strs, sep) ==
    IF strs = <<>> THEN <<>>
    ELSE IF Len(strs) = 1 THEN strs[1]
    ELSE strs[1] \o sep \o Join(Tail(strs), sep)

\* samplePaper of the timer callback (title is a template around difficulty;
\* generatedAt, the date, is left out).
SamplePaper(closure) ==
    LET qc == TimerCount(closure)
        d == closure.difficulty
        st == closure.selectedTopics
    IN  [ difficulty |-> d,
          subject |-> IF Len(st) > 0 THEN Join(st, <<","," ">>) ELSE <<"G","e","n","e","r","a","l"," ","S","t","u","d","i","e","s">>,
          timeLimit |-> closure.timeLimit,
          totalMarks |-> calculateTotalMarks(qc),
          sections |-> <<
            [ part |-> "A", title |-> "Multiple Choice Questions",
              questions |-> PaperQuestions(qc.mcq, FirstTopicOr(st, <<"u","p","l","o","a","d","e","d"," ","c","o","n","t","e","n","t">>), 1, d),
              totalMarks |-> qc.mcq ],
            [ part |-> "B", title |-> "Short Answer Questions",
              questions |-> PaperQuestions(qc.short, FirstTopicOr(st, <<"d","o","c","u","m","e","n","t"," ","c","o","n","t","e","n","t">>), 3, d),
              totalMarks |-> qc.short * 3 ],
            [ part |-> "C", title |-> "Long Answer Questions",
              questions |-> PaperQuestions(qc.long, FirstTopicOr(st, <<"u","p","l","o","a","d","e","d"," ","m","a","t","e","r","i","a","l">>), 10, d),
              totalMarks |-> qc.long * 10 ] >> ]

\* onChange of a count input: setQuestionCount(prev => ({ ...prev, [field]: ... }))
SetQuestionCount(field, text) ==
    /\ PaperMounted
    /\ edits < MaxEdits
    /\ questionCount' = [questionCount EXCEPT ![field] = ParsedCount(text)]
    /\ edits' = edits + 1
    /\ lastOp' = "setQuestionCount"
    /\ UNCHANGED navVars
    /\ UNCHANGED <<paperDifficulty, paper, isGenerating, selectedTopics, timeLimit,
                   genTimers, requestedCount, producedCount>>
    /\ UNCHANGED <<shellVars, uploaderVars, quizVars, resVars, crashed>>

\* onChange of a difficulty radio button: setDifficulty of QuestionPaperPage.
SetDifficulty(level) ==
    /\ PaperMounted
    /\ edits < MaxEdits
    /\ level # paperDifficulty
    /\ paperDifficulty' = level
    /\ edits' = edits + 1
    /\ lastOp' = "setDifficulty"
    /\ UNCHANGED navVars
    /\ UNCHANGED <<paper, isGenerating, selectedTopics, questionCount, timeLimit,
                   genTimers, requestedCount, producedCount>>
    /\ UNCHANGED <<shellVars, uploaderVars, quizVars, resVars, crashed>>

\* onChange of the range input: setTimeLimit(parseInt(e.target.value))
SetTimeLimit(minutes) ==
    /\ PaperMounted
    /\ edits < MaxEdits
    /\ minutes # timeLimit
    /\ timeLimit' = minutes
    /\ edits' = edits + 1
    /\ lastOp' = "setTimeLimit"
    /\ UNCHANGED navVars
    /\ UNCHANGED <<paperDifficulty, paper, isGenerating, selectedTopics, questionCount,
                   genTimers, requestedCount, producedCount>>
    /\ UNCHANGED <<shellVars, uploaderVars, quizVars, resVars, crashed>>

handleTopicToggle(topic) ==
    /\ PaperMounted
    /\ edits < MaxEdits
    /\ selectedTopics' =
          IF \E i \in 1..Len(selectedTopics) : selectedTopics[i] = topic
          THEN SelectSeq(selectedTopics, LAMBDA t : t # topic)
          ELSE Append(selectedTopics, topic)
    /\ edits' = edits + 1
    /\ lastOp' = "handleTopicToggle"
    /\ UNCHANGED navVars
    /\ UNCHANGED <<paperDifficulty, paper, isGenerating, questionCount, timeLimit,
                   genTimers, requestedCount, producedCount>>
    /\ UNCHANGED <<shellVars, uploaderVars, quizVars, resVars, crashed>>

\* generatePaper, the Generate button (disabled while isGenerating).
generatePaper ==
    /\ PaperMounted
    /\ ~isGenerating
    /\ Len(genTimers) + OrphanCount("paper") + toastTimers < MaxToastTimers
    /\ isGenerating' = TRUE
    /\ genTimers' = Append(genTimers,
          [difficulty |-> paperDifficulty, selectedTopics |-> selectedTopics,
           timeLimit |-> timeLimit, questionCount |-> questionCount,
           files |-> uploadedFiles])
    /\ requestedCount' = Some(questionCount)
    /\ lastOp' = "generatePaper"
    /\ UNCHANGED navVars
    /\ UNCHANGED <<paperDifficulty, paper, selectedTopics, questionCount, timeLimit,
                   producedCount, edits>>
    /\ UNCHANGED <<shellVars, uploaderVars, quizVars, resVars, crashed>>

PaperToastMessage(d) == "Question paper generated for " \o d \o " difficulty!"

\* The timer callback of generatePaper: setPaper, onGenerate (generatePaper of
\* QuestionPaperPage, then App.handleQuestionPaperGenerate with
\* displayToast), setIsGenerating(false).
PaperTimerFire ==
    /\ PaperMounted
    /\ genTimers # <<>>
    /\ ~HasOrphan("paper")
    /\ LET closure == Head(genTimers)
       IN  /\ paper' = Some(SamplePaper(closure))
           /\ IF Len(closure.files) > 0
              THEN /\ showToast' = [show |-> TRUE,
                                    message |-> PaperToastMessage(closure.difficulty),
                                    type |-> "success"]
                   /\ toastTimers' = toastTimers + 1
              ELSE UNCHANGED <<showToast, toastTimers>>
    /\ isGenerating' = FALSE
    /\ genTimers' = Tail(genTimers)
    /\ producedCount' = requestedCount
    /\ lastOp' = "paperTimer"
    /\ UNCHANGED navVars
    /\ UNCHANGED <<paperDifficulty, selectedTopics, questionCount, timeLimit,
                   requestedCount, edits>>
    /\ UNCHANGED <<route, uploadedFiles, detectedTopic, showQuizSuggestion, suggestionTimer>>
    /\ UNCHANGED <<uploaderVars, quizVars, resVars, crashed>>

\* The state of a generator that is not mounted: its useState initial values.
PaperIdle ==
    /\ paperDifficulty = "medium"
    /\ paper = Null
    /\ isGenerating = FALSE
    /\ selectedTopics = <<>>
    /\ questionCount = [mcq |-> 10, short |-> 5, long |-> 3]
    /\ timeLimit = 120
    /\ genTimers = <<>>
    /\ requestedCount = Null
    /\ producedCount = Null
    /\ edits = 0

\* ------------------------------------------------------------------------
\* Resources browser: Resources
\* ------------------------------------------------------------------------
UpperChars == <<"A", "B", "C", "D", "E", "F", "G", "H", "I", "J", "K", "L", "M",
                "N", "O", "P", "Q", "R", "S", "T", "U", "V", "W", "X", "Y", "Z">>
LowerChars == <<"a", "b", "c", "d", "e", "f", "g", "h", "i", "j", "k", "l", "m",
                "n", "o", "p", "q", "r", "s", "t", "u", "v", "w", "x", "y", "z">>

\* The lower-case letter of each upper-case letter.
LowerOf ==
    [c \in { UpperChars[k] : k \in 1..Len(UpperChars) } |->
        LowerChars[CHOOSE k \in 1..Len(UpperChars) : UpperChars[k] = c]]

\* s.toLowerCase()
ToLowerCase(s) ==
    [i \in 1..Len(s) |-> IF s[i] \in DOMAIN LowerOf THEN LowerOf[s[i]] ELSE s[i]]

\* s.includes(t)
Includes(s, t) ==
    \/ t = <<>>
    \/ \E i \in 0..(Len(s) - Len(t)) : s[i + 1] = t[1] /\ SubSeq(s, i + 1, i + Len(t)) = t

\* [...new Set(allTopics)]: the first occurrence of each topic, in order.
UniqueTopicsKeepAll(topics) == topics
RECURSIVE UniqueTopics(_)
UniqueTopics(topics) ==
    IF topics = <<>> THEN <<>>
    ELSE LET init == UniqueTopics(SubSeq(topics, 1, Len(topics) - 1))
             last == topics[Len(topics)]
         IN  IF \E i \in 1..Len(init) : init[i] = last THEN init ELSE Append(init, last)

\* The six resources generateResources pushes for the topic at topicIndex
\* (url, thumbnail, rating and the other display-only fields are left out).
TopicResources(topic, topicIndex) ==
    LET n == ToString(topicIndex)
        tag == ToLowerCase(topic)
    IN << [ id |-> "video-" \o n \o "-1", type |-> "video", category |-> "video",
            title |-> topic \o <<" ","-"," ","C","o","m","p","l","e","t","e"," ","T","u","t","o","r","i","a","l">>,
            description |-> <<"C","o","m","p","r","e","h","e","n","s","i","v","e"," ","v","i","d","e","o"," ","t","u","t","o","r","i","a","l"," ","c","o","v","e","r","i","n","g"," ","a","l","l"," ","a","s","p","e","c","t","s"," ","o","f"," ">> \o topic,
            topic |-> topic,
            tags |-> << <<"t","u","t","o","r","i","a","l">>, <<"b","a","s","i","c","s">>, tag >> ],
          [ id |-> "video-" \o n \o "-2", type |-> "video", category |-> "video",
            title |-> <<"A","d","v","a","n","c","e","d"," ">> \o topic \o <<" ","C","o","n","c","e","p","t","s">>,
            description |-> <<"D","e","e","p"," ","d","i","v","e"," ","i","n","t","o"," ","a","d","v","a","n","c","e","d"," ","c","o","n","c","e","p","t","s"," ","a","n","d"," ","r","e","a","l","-","w","o","r","l","d"," ","a","p","p","l","i","c","a","t","i","o","n","s"," ","o","f"," ">> \o topic,
            topic |-> topic,
            tags |-> << <<"a","d","v","a","n","c","e","d">>, <<"c","o","n","c","e","p","t","s">>, tag >> ],
          [ id |-> "article-" \o n \o "-1", type |-> "article", category |-> "article",
            title |-> <<"U","n","d","e","r","s","t","a","n","d","i","n","g"," ">> \o topic \o <<":"," ","A"," ","C","o","m","p","r","e","h","e","n","s","i","v","e"," ","G","u","i","d","e">>,
            description |-> <<"I","n","-","d","e","p","t","h"," ","a","r","t","i","c","l","e"," ","e","x","p","l","a","i","n","i","n","g"," ","t","h","e"," ","f","u","n","d","a","m","e","n","t","a","l","s"," ","a","n","d"," ","a","p","p","l","i","c","a","t","i","o","n","s"," ","o","f"," ">> \o topic,
            topic |-> topic,
            tags |-> << <<"g","u","i","d","e">>, <<"f","u","n","d","a","m","e","n","t","a","l","s">>, tag >> ],
          [ id |-> "article-" \o n \o "-2", type |-> "article", category |-> "article",
            title |-> topic \o <<" ","B","e","s","t"," ","P","r","a","c","t","i","c","e","s"," ","a","n","d"," ","T","i","p","s">>,
            description |-> <<"E","x","p","e","r","t"," ","t","i","p","s"," ","a","n","d"," ","b","e","s","t"," ","p","r","a","c","t","i","c","e","s"," ","f","o","r"," ","m","a","s","t","e","r","i","n","g"," ">> \o topic,
            topic |-> topic,
            tags |-> << <<"t","i","p","s">>, <<"b","e","s","t","-","p","r","a","c","t","i","c","e","s">>, tag >> ],
          [ id |-> "interactive-" \o n \o "-1", type |-> "interactive", category |-> "interactive",
            title |-> topic \o <<" ","I","n","t","e","r","a","c","t","i","v","e"," ","S","i","m","u","l","a","t","o","r">>,
            description |-> <<"H","a","n","d","s","-","o","n"," ","i","n","t","e","r","a","c","t","i","v","e"," ","t","o","o","l"," ","t","o"," ","p","r","a","c","t","i","c","e"," ","a","n","d"," ","e","x","p","e","r","i","m","e","n","t"," ","w","i","t","h"," ">> \o topic \o <<" ","c","o","n","c","e","p","t","s">>,
            topic |-> topic,
            tags |-> << <<"i","n","t","e","r","a","c","t","i","v","e">>, <<"p","r","a","c","t","i","c","e">>, tag >> ],
          [ id |-> "book-" \o n \o "-1", type |-> "book", category |-> "book",
            title |-> <<"T","h","e"," ","C","o","m","p","l","e","t","e"," ">> \o topic \o <<" ","H","a","n","d","b","o","o","k">>,
            description |-> <<"C","o","m","p","r","e","h","e","n","s","i","v","e"," ","r","e","f","e","r","e","n","c","e"," ","b","o","o","k"," ","c","o","v","e","r","i","n","g"," ","e","v","e","r","y","t","h","i","n","g"," ","a","b","o","u","t"," ">> \o topic,
            topic |-> topic,
            tags |-> << <<"r","e","f","e","r","e","n","c","e">>, <<"c","o","m","p","r","e","h","e","n","s","i","v","e">>, tag >> ] >>

\* defaultResources: one resource, which has no tags property.
defaultResources ==
    << [ id |-> "default-1", type |-> "video", category |-> "video",
         title |-> <<"G","e","t","t","i","n","g"," ","S","t","a","r","t","e","d"," ","w","i","t","h"," ","L","e","a","r","n","i","n","g">>,
         description |-> <<"L","e","a","r","n"," ","h","o","w"," ","t","o"," ","m","a","k","e"," ","t","h","e"," ","m","o","s","t"," ","o","f"," ","y","o","u","r"," ","s","t","u","d","y"," ","s","e","s","s","i","o","n","s">>,
         topic |-> <<"S","t","u","d","y"," ","S","k","i","l","l","s">> ] >>

\* uniqueTopics.forEach((topic, topicIndex) => generatedResources.push(...))
RECURSIVE GeneratedResources(_, _)
GeneratedResources(topics, topicIndex) ==
    IF topics = <<>> THEN <<>>
    ELSE TopicResources(Head(topics), topicIndex)
             \o GeneratedResources(Tail(topics), topicIndex + 1)

\* The catalog generateResources sets for the uploadedFiles it closed over.
CatalogNoDefault(files) == GeneratedResources(UniqueTopics(FlatTopics(files)), 0)
Catalog(files) ==
    IF Len(files) > 0
    THEN GeneratedResources(UniqueTopics(FlatTopics(files)), 0)
    ELSE defaultResources

Ids(catalog) == [i \in 1..Len(catalog) |-> catalog[i].id]

\* The first three alternatives of the search predicate of the filter effect.
MatchesText(r, q) ==
    \/ Includes(ToLowerCase(r.title), ToLowerCase(q))
    \/ Includes(ToLowerCase(r.description), ToLowerCase(q))
    \/ Includes(ToLowerCase(r.topic), ToLowerCase(q))

\* The last alternative, resource.tags.some(...), where tags is defined.
MatchesTag(r, q) ==
    \E i \in 1..Len(r.tags) : Includes(ToLowerCase(r.tags[i]), ToLowerCase(q))

\* resources after the category step of the filter effect.
CategoryStep(list, category) ==
    IF category # "all" THEN SelectSeq(list, LAMBDA r : r.category = category) ELSE list

\* The filter effect reads resource.tags.some of a resource without tags (a
\* TypeError) when the query is not blank and the resource, kept by the
\* category step, matches in neither title, description nor topic.
FilterThrows(list, category, q) ==
    LET kept == CategoryStep(list, category)
    IN  /\ Trim(q) # <<>>
        /\ \E i \in 1..Len(kept) : ~MatchesText(kept[i], q) /\ "tags" \notin DOMAIN kept[i]

\* The list the filter effect passes to setFilteredResources.
Filtered(list, category, q) ==
    IF Trim(q) # <<>>
    THEN SelectSeq(CategoryStep(list, category),
                   LAMBDA r : MatchesText(r, q) \/ ("tags" \in DOMAIN r /\ MatchesTag(r, q)))
    ELSE CategoryStep(list, category)

categories == { "all", "video", "article", "interactive", "book" }

\* The search queries a parent passes (ResourcesPage passes none: '').
Queries == { <<>>, <<" "," ">>, <<"m","l">>, <<"T","i","p","s">>, <<"l","e","a","r","n">>, <<"z","z","z">> }

\* What ResourcesPage renders under its heading: the Resources, whatever the
\* uploaded files.
ResourcesPageView(files) == "Resources"

ResourcesMounted ==
    route = "/resources" /\ ResourcesPageView(uploadedFiles) = "Resources" /\ ~crashed

\* The timer callback generateResources of the catalog effect, followed by the
\* filter effect on the new resources.
ResourcesTimerFire ==
    /\ ResourcesMounted
    /\ resTimers # <<>>
    /\ resources' = Catalog(Head(resTimers))
    /\ catalogRuns' = catalogRuns \cup { [files |-> Head(resTimers), ids |-> Ids(resources')] }
    /\ IF FilterThrows(resources', selectedCategory, searchQuery)
       THEN filteredResources' = resources' /\ crashed' = TRUE
       ELSE /\ filteredResources' = Filtered(resources', selectedCategory, searchQuery)
            /\ crashed' = FALSE
    /\ resIsLoading' = FALSE
    /\ resTimers' = Tail(resTimers)
    /\ lastOp' = "generateResources"
    /\ UNCHANGED navVars
    /\ UNCHANGED <<searchQuery, selectedCategory, favorites, lastToggle>>
    /\ UNCHANGED <<uploaderVars, quizVars, paperVars>>
    /\ ShellOnCrash

\* onClick of a category button (the buttons are on screen once loaded), and
\* the filter effect on the new category.
SetSelectedCategory(category) ==
    /\ ResourcesMounted
    /\ ~resIsLoading
    /\ category # selectedCategory
    /\ selectedCategory' = category
    /\ IF FilterThrows(resources, category, searchQuery)
       THEN UNCHANGED filteredResources /\ crashed' = TRUE
       ELSE /\ filteredResources' = Filtered(resources, category, searchQuery)
            /\ crashed' = FALSE
    /\ lastOp' = "setSelectedCategory"
    /\ UNCHANGED navVars
    /\ UNCHANGED <<searchQuery, resources, resIsLoading, favorites, lastToggle, resTimers,
                   catalogRuns>>
    /\ UNCHANGED <<uploaderVars, quizVars, paperVars>>
    /\ ShellOnCrash

\* The parent passes another searchQuery prop; the filter effect runs on it.
SetSearchQuery(q) ==
    /\ ResourcesMounted
    /\ q # searchQuery
    /\ searchQuery' = q
    /\ IF FilterThrows(resources, selectedCategory, q)
       THEN UNCHANGED filteredResources /\ crashed' = TRUE
       ELSE /\ filteredResources' = Filtered(resources, selectedCategory, q)
            /\ crashed' = FALSE
    /\ lastOp' = "setSearchQuery"
    /\ UNCHANGED navVars
    /\ UNCHANGED <<resources, resIsLoading, selectedCategory, favorites, lastToggle,
                   resTimers, catalogRuns>>
    /\ UNCHANGED <<uploaderVars, quizVars, paperVars>>
    /\ ShellOnCrash

\* prev.includes(resourceId) ? prev.filter(id => id !== resourceId)
\*                            : [...prev, resourceId]
ToggledAlwaysAppend(prev, resourceId) == Append(prev, resourceId)
Toggled(prev, resourceId) ==
    IF \E i \in 1..Len(prev) : prev[i] = resourceId
    THEN SelectSeq(prev, LAMBDA id : id # resourceId)
    ELSE Append(prev, resourceId)

\* toggleFavorite, the heart button of a card of the filtered list.
toggleFavorite(resourceId) ==
    /\ ResourcesMounted
    /\ ~resIsLoading
    /\ \E i \in 1..Len(filteredResources) : filteredResources[i].id = resourceId
    /\ favorites' = Toggled(favorites, resourceId)
    /\ lastToggle' = Some([id |-> resourceId, before |-> favorites])
    /\ lastOp' = "toggleFavorite"
    /\ UNCHANGED navVars
    /\ UNCHANGED <<searchQuery, resources, filteredResources, resIsLoading, selectedCategory,
                   resTimers, catalogRuns>>
    /\ UNCHANGED <<shellVars, uploaderVars, quizVars, paperVars, crashed>>

\* What a new uploadedFiles list does to the Resources on "/resources": the
\* catalog effect runs again and starts another 1 s timer.
ResourcesOnShellChange ==
    IF route = "/resources" /\ ~crashed
    THEN /\ resTimers' = Append(resTimers, uploadedFiles')
         /\ UNCHANGED <<searchQuery, resources, filteredResources, resIsLoading,
                        selectedCategory, favorites, lastToggle, catalogRuns>>
    ELSE UNCHANGED resVars

\* The state of a browser that is not mounted: its useState initial values.
ResourcesIdle ==
    /\ resources = <<>>
    /\ filteredResources = <<>>
    /\ resIsLoading = TRUE
    /\ selectedCategory = "all"
    /\ favorites = <<>>
    /\ lastToggle = Null
    /\ resTimers = <<>>
    /\ catalogRuns = {}

\* ------------------------------------------------------------------------
\* Upload intake: PdfUploader
\* ------------------------------------------------------------------------
validTypesWithImages ==
    { "application/pdf",
      "application/vnd.openxmlformats-officedocument.wordprocessingml.document",
      "text/plain", "image/png" }
validTypes ==
    { "application/pdf",
      "application/vnd.openxmlformats-officedocument.wordprocessingml.document",
      "text/plain" }

\* The files the user picks: name and declared media type are independent.
FileNames == { <<"n","o","t","e","s",".","p","d","f">>, <<"m","y",".","n","o","t","e","s",".","p","d","f">>, <<"M","L",".","t","x","t">> }
FileTypes == validTypes \cup { "image/png" }
Files == [name : FileNames, type : FileTypes]

InvalidTypeMessage == "Please upload a PDF, DOCX, or TXT file."
UploadedMessage == "File uploaded and processed successfully!"

NoToast == [show |-> FALSE, message |-> "", type |-> "success"]

\* fileData of the timer callback (the blob url is opaque and left out).
FileData(file) ==
    [name |-> file.name, type |-> file.type,
     topics |-> <<SplitHead(file.name, ".")>>]

\* handleFileChange: validation, then the 2 s timer.
HandleFileChange(file) ==
    /\ route = "/" /\ ~crashed
    /\ Len(uploadedFiles) + Len(upTimers) + OrphanCount("upload") < MaxFiles
    /\ IF file.type \notin validTypes
       THEN /\ error' = Some(InvalidTypeMessage)
            /\ selectedFile' = Null
            /\ UNCHANGED <<upIsLoading, upTimers, accepted>>
       ELSE /\ error' = Null
            /\ selectedFile' = Some(file)
            /\ upIsLoading' = TRUE
            /\ upTimers' = Append(upTimers, file)
            /\ accepted' = Append(accepted, FileData(file))
    /\ submitted' = Some(file)
    /\ lastOp' = "handleFileChange"
    /\ UNCHANGED navVars
    /\ UNCHANGED <<shellVars, quizVars, paperVars, resVars, crashed>>

\* The upload whose 2 s timer fires next: of timers with one delay, the one
\* started first.
DueUploadNewest(pending) == pending[Len(pending)]
DueUpload(pending) == Head(pending)

\* onTopicDetected(fileData.topics[0]), App.handleTopicDetected: the detected
\* topic after the upload of fileData, for the topic held before.
TopicAfterUploadFirstKept(prev, fileData) == IF prev # <<>> THEN prev ELSE fileData.topics[1]
TopicAfterUpload(prev, fileData) == fileData.topics[1]

\* The timer callback of handleFileChange: onFileUpload (App.handleFileUpload
\* with displayToast), onTopicDetected (App.handleTopicDetected), the
\* uploader's own resets, and App's suggestion effect on the new list.
UploadTimerFire ==
    /\ ~crashed
    /\ upTimers # <<>>
    /\ ~HasOrphan("upload")
    /\ LET fileData == FileData(DueUpload(upTimers))
       IN  /\ uploadedFiles' = Append(uploadedFiles, fileData)
           /\ showToast' = [show |-> TRUE, message |-> UploadedMessage, type |-> "success"]
           /\ toastTimers' = toastTimers + 1
           /\ detectedTopic' = TopicAfterUpload(detectedTopic, fileData)
    /\ upTimers' = Tail(upTimers)
    /\ upIsLoading' = FALSE
    /\ selectedFile' = Null
    /\ suggestionTimer' = SuggestionEffect(suggestionTimer, uploadedFiles')
    /\ lastOp' = "uploadTimer"
    /\ UNCHANGED navVars
    /\ QuizOnShellChange
    /\ ResourcesOnShellChange
    /\ UNCHANGED <<route, showQuizSuggestion, error, submitted, accepted, crashed, paperVars>>

\* onClick of the delete button of the card of file i: the button has no
\* handler, the list stays as it is.
AfterDeleteClickRemoved(files, i) == RemoveAt(files, i)
AfterDeleteClick(files, i) == files

DeleteClick(i) ==
    /\ route = "/" /\ ~crashed
    /\ i \in 1..Len(uploadedFiles)
    /\ uploadedFiles' = AfterDeleteClick(uploadedFiles, i)
    /\ lastOp' = "deleteClick"
    /\ UNCHANGED navVars
    /\ UNCHANGED <<route, detectedTopic, showQuizSuggestion, showToast, toastTimers,
                   suggestionTimer>>
    /\ UNCHANGED <<uploaderVars, quizVars, paperVars, resVars, crashed>>

\* ------------------------------------------------------------------------
\* Application shell: App
\* ------------------------------------------------------------------------
\* The value the timer callback of displayToast sets.
DismissedToastKeepsMessage == [show |-> FALSE, message |-> UploadedMessage, type |-> "success"]
DismissedToast == [show |-> FALSE, message |-> "", type |-> "success"]

\* The 3 s timer of displayToast.
ToastTimerFire ==
    /\ toastTimers > 0
    /\ toastTimers' = toastTimers - 1
    /\ showToast' = DismissedToast
    /\ lastOp' = "toastTimer"
    /\ UNCHANGED navVars
    /\ UNCHANGED <<route, uploadedFiles, detectedTopic, showQuizSuggestion, suggestionTimer>>
    /\ UNCHANGED <<uploaderVars, quizVars, paperVars, resVars, crashed>>

\* Toast onClose.
ToastClose ==
    /\ ~crashed
    /\ showToast.show
    /\ showToast' = NoToast
    /\ lastOp' = "toastClose"
    /\ UNCHANGED navVars
    /\ UNCHANGED <<route, uploadedFiles, detectedTopic, showQuizSuggestion, toastTimers,
                   suggestionTimer>>
    /\ UNCHANGED <<uploaderVars, quizVars, paperVars, resVars, crashed>>

\* The 5 s timer of the suggestion effect.
SuggestionTimerFire ==
    /\ suggestionTimer # <<>>
    /\ suggestionTimer' = Tail(suggestionTimer)
    /\ showQuizSuggestion' = TRUE
    /\ lastOp' = "suggestionTimer"
    /\ UNCHANGED navVars
    /\ UNCHANGED <<route, uploadedFiles, detectedTopic, showToast, toastTimers>>
    /\ UNCHANGED <<uploaderVars, quizVars, paperVars, resVars, crashed>>

handleQuizReject ==
    /\ ~crashed
    /\ showQuizSuggestion
    /\ showQuizSuggestion' = FALSE
    /\ lastOp' = "handleQuizReject"
    /\ UNCHANGED navVars
    /\ UNCHANGED <<route, uploadedFiles, detectedTopic, showToast, toastTimers, suggestionTimer>>
    /\ UNCHANGED <<uploaderVars, quizVars, paperVars, resVars, crashed>>

\* handleQuizAccept, the Accept button of the suggestion modal:
\* setShowQuizSuggestion(false), then navigate('/quiz'). App has no binding
\* named navigate (useNavigate is called in the page components only), so
\* the call is a ReferenceError thrown out of the event handler: React
\* reports it, keeps the tree and applies the queued state update.
handleQuizAccept ==
    /\ ~crashed
    /\ showQuizSuggestion
    /\ showQuizSuggestion' = FALSE
    /\ uncaught' = Some("ReferenceError: navigate is not defined")
    /\ lastOp' = "handleQuizAccept"
    /\ UNCHANGED <<orphans, navigations>>
    /\ UNCHANGED <<route, uploadedFiles, detectedTopic, showToast, toastTimers, suggestionTimer>>
    /\ UNCHANGED <<uploaderVars, quizVars, paperVars, resVars, crashed>>

ShellInit ==
    /\ uploadedFiles = <<>>
    /\ detectedTopic = <<>>
    /\ showQuizSuggestion = FALSE
    /\ showToast = NoToast
    /\ toastTimers = 0
    /\ suggestionTimer = <<>>

UploaderInit ==
    /\ selectedFile = Null
    /\ upIsLoading = FALSE
    /\ error = Null
    /\ upTimers = <<>>
    /\ submitted = Null
    /\ accepted = uploadedFiles

\* ------------------------------------------------------------------------
\* Specification of the upload page: the application as started, on "/".
\* ------------------------------------------------------------------------
InitUpload ==
    /\ route = "/"
    /\ ShellInit
    /\ UploaderInit
    /\ difficulty = "medium" /\ quizTimeLimit = Null /\ QuizIdle /\ loadTimers = <<>>
    /\ PaperIdle
    /\ searchQuery = <<>> /\ ResourcesIdle
    /\ crashed = FALSE
    /\ orphans = <<>> /\ navigations = 0 /\ uncaught = Null
    /\ lastOp = "init"

NextUpload ==
    \/ \E file \in Files : HandleFileChange(file)
    \/ UploadTimerFire
    \/ \E i \in 1..Len(uploadedFiles) : DeleteClick(i)
    \/ ToastTimerFire
    \/ ToastClose
    \/ SuggestionTimerFire
    \/ handleQuizAccept
    \/ handleQuizReject

SpecUpload == InitUpload /\ [][NextUpload]_vars

\* The same with the browser's guarantee that a pending timer fires.
SpecUploadFair == SpecUpload /\ WF_vars(ToastTimerFire) /\ WF_vars(UploadTimerFire)

\* ------------------------------------------------------------------------
\* Specification of the quiz page: "/quiz" as entered after a first upload
\* (its toast gone, the suggestion rejected), with or without a second
\* upload still in flight; the Quiz has just been mounted with some
\* difficulty prop and its first load timer is pending.
\* ------------------------------------------------------------------------
FirstFile == [name |-> <<"n","o","t","e","s",".","p","d","f">>, type |-> "application/pdf"]
SecondFile == [name |-> <<"M","L",".","t","x","t">>, type |-> "text/plain"]

InitQuiz ==
    /\ route = "/quiz"
    /\ uploadedFiles = <<FileData(FirstFile)>>
    /\ detectedTopic = FileData(FirstFile).topics[1]
    /\ showQuizSuggestion = FALSE
    /\ showToast = NoToast
    /\ toastTimers = 0
    /\ suggestionTimer = <<>>
    /\ selectedFile = Null /\ upIsLoading = FALSE /\ error = Null /\ submitted = Null
    /\ upTimers \in { <<>>, <<SecondFile>> }
    /\ accepted = uploadedFiles \o [i \in 1..Len(upTimers) |-> FileData(upTimers[i])]
    /\ difficulty \in Difficulties
    /\ quizTimeLimit = Null
    /\ QuizIdle
    /\ loadTimers = <<[topic |-> QuizTopic(detectedTopic, uploadedFiles),
                       difficulty |-> difficulty]>>
    /\ PaperIdle
    /\ searchQuery = <<>> /\ ResourcesIdle
    /\ crashed = FALSE
    /\ orphans = <<>> /\ navigations = 0 /\ uncaught = Null
    /\ lastOp = "init"

NextQuiz ==
    \/ GenerateQuestions
    \/ (QuestionShown /\ \E answer \in AnswerInputs(questions[currentQuestion + 1]) :
                             handleAnswer(answer))
    \/ \E text \in TextInputs : TypeAnswer(text)
    \/ nextQuestion
    \/ resetQuiz
    \/ FinishClick
    \/ UploadTimerFire

SpecQuiz == InitQuiz /\ [][NextQuiz]_vars

\* ------------------------------------------------------------------------
\* Specification of a Quiz whose parent passes a time limit: the quiz page
\* as above, with or without a second upload still in flight, the countdown
\* just started.
\* ------------------------------------------------------------------------
QuizTimeLimits == { Some(1), Some(2), Some(3) }

InitQuizTimed ==
    /\ route = "/quiz"
    /\ uploadedFiles = <<FileData(FirstFile)>>
    /\ detectedTopic = FileData(FirstFile).topics[1]
    /\ showQuizSuggestion = FALSE
    /\ showToast = NoToast
    /\ toastTimers = 0
    /\ suggestionTimer = <<>>
    /\ selectedFile = Null /\ upIsLoading = FALSE /\ error = Null /\ submitted = Null
    /\ upTimers \in { <<>>, <<SecondFile>> }
    /\ accepted = uploadedFiles \o [i \in 1..Len(upTimers) |-> FileData(upTimers[i])]
    /\ difficulty \in { "easy", "medium" }
    /\ quizTimeLimit \in QuizTimeLimits
    /\ QuizIdle
    /\ loadTimers = <<[topic |-> QuizTopic(detectedTopic, uploadedFiles),
                       difficulty |-> difficulty]>>
    /\ PaperIdle
    /\ searchQuery = <<>> /\ ResourcesIdle
    /\ crashed = FALSE
    /\ orphans = <<>> /\ navigations = 0 /\ uncaught = Null
    /\ lastOp = "init"

NextQuizTimed ==
    \/ GenerateQuestions
    \/ (QuestionShown /\ \E answer \in AnswerInputs(questions[currentQuestion + 1]) :
                             handleAnswer(answer))
    \/ \E text \in TextInputs : TypeAnswer(text)
    \/ nextQuestion
    \/ resetQuiz
    \/ FinishClick
    \/ Tick
    \/ UploadTimerFire

SpecQuizTimed == InitQuizTimed /\ [][NextQuizTimed]_vars

\* ------------------------------------------------------------------------
\* Specification of the question-paper page: "/question-paper" as entered
\* after a first upload (its toast gone, the suggestion rejected).
\* ------------------------------------------------------------------------
InitPaper ==
    /\ route = "/question-paper"
    /\ uploadedFiles = <<FileData(FirstFile)>>
    /\ detectedTopic = FileData(FirstFile).topics[1]
    /\ showQuizSuggestion = FALSE
    /\ showToast = NoToast
    /\ toastTimers = 0
    /\ suggestionTimer = <<>>
    /\ UploaderInit
    /\ difficulty = "medium" /\ quizTimeLimit = Null /\ QuizIdle /\ loadTimers = <<>>
    /\ PaperIdle
    /\ searchQuery = <<>> /\ ResourcesIdle
    /\ crashed = FALSE
    /\ orphans = <<>> /\ navigations = 0 /\ uncaught = Null
    /\ lastOp = "init"

NextPaper ==
    \/ \E field \in CountFields, text \in CountTexts : SetQuestionCount(field, text)
    \/ \E level \in {"easy", "medium", "hard"} : SetDifficulty(level)
    \/ \E minutes \in TimeLimits : SetTimeLimit(minutes)
    \/ (PaperMounted /\ \E i \in 1..Len(availableTopics) : handleTopicToggle(availableTopics[i]))
    \/ generatePaper
    \/ PaperTimerFire
    \/ ToastTimerFire
    \/ ToastClose

SpecPaper == InitPaper /\ [][NextPaper]_vars

RECURSIVE SumOfMarks(_)
SumOfMarks(qs) == IF qs = <<>> THEN 0 ELSE Head(qs).marks + SumOfMarks(Tail(qs))

RECURSIVE SumOfSectionTotals(_)
SumOfSectionTotals(secs) ==
    IF secs = <<>> THEN 0 ELSE Head(secs).totalMarks + SumOfSectionTotals(Tail(secs))

\* C5: the generated paper's totalMarks is mcqCount*1 + shortCount*3 +
\* longCount*10 for the counts in effect when generate was requested.
C5_TotalMarksOfRequestedCounts ==
    paper # Null =>
        paper[1].totalMarks =
            producedCount[1].mcq * 1 + producedCount[1].short * 3 + producedCount[1].long * 10

\* A paper produced after a count was changed during the 3 s delay.
C5_Witness ==
    /\ paper # Null /\ lastOp = "paperTimer"
    /\ producedCount[1] # questionCount
    /\ paper[1].totalMarks # calculateTotalMarks(questionCount)

\* C6: in every generated paper each section's totalMarks is the sum of the
\* marks of the questions in it, and the paper's totalMarks is the sum of the
\* sections' totalMarks, for every count the inputs can store.
C6_MarksAreDerivedSums ==
    paper # Null =>
        /\ \A i \in 1..Len(paper[1].sections) :
               paper[1].sections[i].totalMarks = SumOfMarks(paper[1].sections[i].questions)
        /\ paper[1].totalMarks = SumOfSectionTotals(paper[1].sections)

\* C7: every generated paper has exactly the sections A, B, C in this order,
\* holding mcqCount, shortCount and longCount questions.
C7_ThreeSectionsWithRequestedCounts ==
    paper # Null =>
        /\ Len(paper[1].sections) = 3
        /\ paper[1].sections[1].part = "A"
        /\ paper[1].sections[2].part = "B"
        /\ paper[1].sections[3].part = "C"
        /\ Len(paper[1].sections[1].questions) = producedCount[1].mcq
        /\ Len(paper[1].sections[2].questions) = producedCount[1].short
        /\ Len(paper[1].sections[3].questions) = producedCount[1].long

\* ------------------------------------------------------------------------
\* Specification of the resources page: "/resources" as entered with no file
\* or one file uploaded and with uploads still in flight; the Resources has
\* just been mounted with some searchQuery prop, its first catalog timer and
\* its first filter effect (on the empty catalog) done.
\* ------------------------------------------------------------------------
RECURSIVE SeqsUpTo(_, _)
SeqsUpTo(S, n) ==
    IF n = 0 THEN { <<>> }
    ELSE SeqsUpTo(S, n - 1) \cup
         { Append(q, x) : q \in { t \in SeqsUpTo(S, n - 1) : Len(t) = n - 1 }, x \in S }

InitResources ==
    /\ route = "/resources"
    /\ uploadedFiles \in { <<>>, <<FileData(FirstFile)>> }
    /\ detectedTopic = IF uploadedFiles = <<>> THEN <<>> ELSE uploadedFiles[1].topics[1]
    /\ showQuizSuggestion = FALSE
    /\ showToast = NoToast
    /\ toastTimers = 0
    /\ suggestionTimer \in { <<>>, SuggestionEffect(<<>>, uploadedFiles) }
    /\ selectedFile = Null /\ upIsLoading = FALSE /\ error = Null /\ submitted = Null
    /\ upTimers \in SeqsUpTo({FirstFile, SecondFile}, MaxFiles - Len(uploadedFiles))
    /\ accepted = uploadedFiles \o [i \in 1..Len(upTimers) |-> FileData(upTimers[i])]
    /\ difficulty = "medium" /\ quizTimeLimit = Null /\ QuizIdle /\ loadTimers = <<>>
    /\ PaperIdle
    /\ searchQuery \in Queries
    /\ resources = <<>>
    /\ filteredResources = <<>>
    /\ resIsLoading = TRUE
    /\ selectedCategory = "all"
    /\ favorites = <<>> /\ lastToggle = Null
    /\ resTimers = <<uploadedFiles>>
    /\ catalogRuns = {}
    /\ crashed = FALSE
    /\ orphans = <<>> /\ navigations = 0 /\ uncaught = Null
    /\ lastOp = "init"

NextResources ==
    \/ ResourcesTimerFire
    \/ \E category \in categories : SetSelectedCategory(category)
    \/ \E q \in Queries : SetSearchQuery(q)
    \/ UploadTimerFire
    \/ SuggestionTimerFire
    \/ handleQuizAccept
    \/ handleQuizReject

SpecResources == InitResources /\ [][NextResources]_vars

\* The same with the browser's guarantee that a pending timer fires.
SpecResourcesFair ==
    SpecResources /\ WF_vars(ResourcesTimerFire) /\ WF_vars(UploadTimerFire)

\* ------------------------------------------------------------------------
\* Specification of the favorites of the resources page: "/resources" as
\* entered with nothing uploaded, with or without an upload in flight, no
\* search query passed at first.
\* ------------------------------------------------------------------------
\* The cards whose heart button is clicked: the first three shown.
FavoriteCards == { 1, 2, 3 }

FavoriteQueries == { <<>>, <<"l","e","a","r","n">> }

InitFavorites ==
    /\ route = "/resources"
    /\ ShellInit
    /\ selectedFile = Null /\ upIsLoading = FALSE /\ error = Null /\ submitted = Null
    /\ upTimers \in { <<>>, <<FirstFile>> }
    /\ accepted = uploadedFiles \o [i \in 1..Len(upTimers) |-> FileData(upTimers[i])]
    /\ difficulty = "medium" /\ quizTimeLimit = Null /\ QuizIdle /\ loadTimers = <<>>
    /\ PaperIdle
    /\ searchQuery = <<>>
    /\ resources = <<>>
    /\ filteredResources = <<>>
    /\ resIsLoading = TRUE
    /\ selectedCategory = "all"
    /\ favorites = <<>> /\ lastToggle = Null
    /\ resTimers = <<uploadedFiles>>
    /\ catalogRuns = {}
    /\ crashed = FALSE
    /\ orphans = <<>> /\ navigations = 0 /\ uncaught = Null
    /\ lastOp = "init"

NextFavorites ==
    \/ ResourcesTimerFire
    \/ \E category \in { "all", "article" } : SetSelectedCategory(category)
    \/ \E q \in FavoriteQueries : SetSearchQuery(q)
    \/ \E i \in FavoriteCards \cap (1..Len(filteredResources)) :
           toggleFavorite(filteredResources[i].id)
    \/ UploadTimerFire

SpecFavorites == InitFavorites /\ [][NextFavorites]_vars

\* ------------------------------------------------------------------------
\* Navigation: the Navbar links and the pages' Back / Upload File buttons
\* ------------------------------------------------------------------------
Routes == { "/", "/quiz", "/question-paper", "/resources" }

\* A pending timer of an unmounted component: what its callback closed over.
Orphan(kind, file, d, has) ==
    [kind |-> kind, file |-> file, difficulty |-> d, hasFiles |-> has]

\* The pending timers of the page at route p, left behind when p is left:
\* none of handleFileChange, the load effect, generatePaper and the catalog
\* effect clears its timer.
OrphansOf(p) ==
    CASE p = "/" ->
            [i \in 1..Len(upTimers) |-> Orphan("upload", Some(upTimers[i]), "", FALSE)]
      [] p = "/quiz" ->
            [i \in 1..Len(loadTimers) |-> Orphan("quiz", Null, "", FALSE)]
      [] p = "/question-paper" ->
            [i \in 1..Len(genTimers) |->
                Orphan("paper", Null, genTimers[i].difficulty, Len(genTimers[i].files) > 0)]
      [] p = "/resources" ->
            [i \in 1..Len(resTimers) |-> Orphan("resources", Null, "", FALSE)]


\* A route change: the page at the old route unmounts (its state is dropped,
\* its timers stay pending) and the page at the new route mounts with its
\* useState initial values and the timers its mount effects start.
Navigate(to) ==
    /\ ~crashed
    /\ to # route
    /\ navigations < MaxNavigations
    /\ route' = to
    /\ navigations' = navigations + 1
    /\ orphans' = orphans \o OrphansOf(route)
    \* PdfUploader
    /\ selectedFile' = Null /\ upIsLoading' = FALSE /\ error' = Null /\ upTimers' = <<>>
    \* Quiz: QuizPage passes no difficulty, the default applies
    /\ difficulty' = "medium"
    /\ quizTimeLimit' = Null /\ timeRemaining' = Null /\ tickTimer' = FALSE
    /\ questions' = <<>> /\ currentQuestion' = 0 /\ score' = 0 /\ selectedAnswer' = <<>>
    /\ showResult' = FALSE /\ isLoading' = TRUE /\ showExplanation' = FALSE
    /\ userAnswers' = <<>> /\ isAnswered' = FALSE
    /\ onCompleteArg' = Null /\ onCompleteCalls' = 0 /\ answerCalls' = 0
    /\ LET mounts == to = "/quiz" /\ QuizPageView(uploadedFiles) = "Quiz"
           \* detectedTopic || uploadedFiles[0].topics[0] throws on an empty list
           throws == mounts /\ detectedTopic = <<>> /\ Len(uploadedFiles) = 0
       IN  /\ loadTimers' = IF mounts /\ ~throws
                            THEN <<[topic |-> QuizTopic(detectedTopic, uploadedFiles),
                                    difficulty |-> "medium"]>>
                            ELSE <<>>
           /\ crashed' = throws
           /\ suggestionTimer' = IF throws THEN SuggestionCleanup(suggestionTimer) ELSE suggestionTimer
    \* QuestionPaperPage and QuestionPaper
    /\ paperDifficulty' = "medium" /\ paper' = Null /\ isGenerating' = FALSE
    /\ selectedTopics' = <<>> /\ questionCount' = [mcq |-> 10, short |-> 5, long |-> 3]
    /\ timeLimit' = 120 /\ genTimers' = <<>>
    /\ requestedCount' = Null /\ producedCount' = Null
    \* Resources: ResourcesPage passes no searchQuery
    /\ searchQuery' = <<>>
    /\ resources' = <<>> /\ filteredResources' = <<>> /\ resIsLoading' = TRUE
    /\ selectedCategory' = "all" /\ favorites' = <<>> /\ lastToggle' = Null
    /\ resTimers' = IF to = "/resources" /\ ResourcesPageView(uploadedFiles) = "Resources"
                    THEN <<uploadedFiles>> ELSE <<>>
    /\ lastOp' = "navigate"
    /\ UNCHANGED <<uploadedFiles, detectedTopic, showQuizSuggestion, showToast, toastTimers,
                   submitted, accepted, edits, catalogRuns, uncaught>>

\* The 2 s timer of an uploader that has been unmounted: its callbacks still
\* reach App (handleFileUpload, displayToast, handleTopicDetected, the
\* suggestion effect); its own setState calls are dropped.
StaleUploadTimerFire ==
    /\ ~crashed
    /\ HasOrphan("upload")
    /\ LET i == FirstOrphan("upload")
           fileData == FileData(orphans[i].file[1])
       IN  /\ uploadedFiles' = Append(uploadedFiles, fileData)
           /\ showToast' = [show |-> TRUE, message |-> UploadedMessage, type |-> "success"]
           /\ toastTimers' = toastTimers + 1
           /\ detectedTopic' = TopicAfterUpload(detectedTopic, fileData)
           /\ orphans' = RemoveAt(orphans, i)
    /\ suggestionTimer' = SuggestionEffect(suggestionTimer, uploadedFiles')
    /\ lastOp' = "staleUploadTimer"
    /\ QuizOnShellChange
    /\ ResourcesOnShellChange
    /\ UNCHANGED <<route, showQuizSuggestion, uploaderVars, paperVars, crashed, navigations, uncaught>>

\* The 3 s timer of a generator that has been unmounted: setPaper and
\* setIsGenerating are dropped, onGenerate still reaches App's displayToast.
StalePaperTimerFire ==
    /\ ~crashed
    /\ HasOrphan("paper")
    /\ LET i == FirstOrphan("paper")
       IN  /\ IF orphans[i].hasFiles
              THEN /\ showToast' = [show |-> TRUE,
                                    message |-> PaperToastMessage(orphans[i].difficulty),
                                    type |-> "success"]
                   /\ toastTimers' = toastTimers + 1
              ELSE UNCHANGED <<showToast, toastTimers>>
           /\ orphans' = RemoveAt(orphans, i)
    /\ lastOp' = "stalePaperTimer"
    /\ UNCHANGED <<route, uploadedFiles, detectedTopic, showQuizSuggestion, suggestionTimer>>
    /\ UNCHANGED <<uploaderVars, quizVars, paperVars, resVars, crashed, navigations, uncaught>>

\* The timer of a Quiz (1.5 s) or a Resources (1 s) that has been unmounted:
\* the callback runs, and every setState it makes is dropped.
StaleLoadTimerFire(kind) ==
    /\ ~crashed
    /\ kind \in { "quiz", "resources" }
    /\ HasOrphan(kind)
    /\ orphans' = RemoveAt(orphans, FirstOrphan(kind))
    /\ lastOp' = IF kind = "quiz" THEN "staleQuizTimer" ELSE "staleResourcesTimer"
    /\ UNCHANGED <<shellVars, uploaderVars, quizVars, paperVars, resVars, crashed, navigations, uncaught>>

\* ------------------------------------------------------------------------
\* Specification of the question-paper page with the way out and back: the
\* page as entered after a first upload, the Navbar links to the upload page
\* and to the question-paper page.
\* ------------------------------------------------------------------------
NextPaperNav ==
    \/ \E to \in { "/", "/question-paper" } : Navigate(to)
    \/ \E level \in {"easy", "medium", "hard"} : SetDifficulty(level)
    \/ generatePaper
    \/ PaperTimerFire
    \/ StalePaperTimerFire
    \/ ToastTimerFire
    \/ ToastClose

SpecPaperNav == InitPaper /\ [][NextPaperNav]_vars

\* ------------------------------------------------------------------------
\* Specification of the whole application: started on "/", every page
\* reachable through the Navbar.
\* ------------------------------------------------------------------------
AppFiles ==
    { FirstFile, SecondFile, [name |-> <<"M","L",".","t","x","t">>, type |-> "image/png"] }

\* The answers given in a session: the right option and the first option of a
\* choice question, a non-blank text otherwise.
AppAnswers(q) ==
    IF q.type = "multiple-choice" THEN { q.answer, q.options[1] } ELSE { <<"o","k">> }

NextApp ==
    \/ \E to \in Routes : Navigate(to)
    \/ \E file \in AppFiles : HandleFileChange(file)
    \/ UploadTimerFire
    \/ \E i \in 1..Len(uploadedFiles) : DeleteClick(i)
    \/ StaleUploadTimerFire
    \/ StalePaperTimerFire
    \/ \E kind \in { "quiz", "resources" } : StaleLoadTimerFire(kind)
    \/ ToastTimerFire
    \/ ToastClose
    \/ SuggestionTimerFire
    \/ handleQuizAccept
    \/ handleQuizReject
    \/ GenerateQuestions
    \/ (QuestionShown /\ \E answer \in AppAnswers(questions[currentQuestion + 1]) :
                             handleAnswer(answer))
    \/ nextQuestion
    \/ resetQuiz
    \/ generatePaper
    \/ PaperTimerFire
    \/ ResourcesTimerFire
    \/ \E category \in { "all", "video" } : SetSelectedCategory(category)

SpecApp == InitUpload /\ [][NextApp]_vars

\* The distinct topics of a list in the order of their first occurrence.
FirstSeen(topics) ==
    LET idx == {i \in 1..Len(topics) : \A j \in 1..(i - 1) : topics[j] # topics[i]}
    IN  [k \in 1..Cardinality(idx) |->
            topics[CHOOSE i \in idx : Cardinality({j \in idx : j <= i}) = k]]

\* C8: two runs of generateResources on uploaded-file lists carrying the same
\* topics in the same first-seen order yield the same number of resources and
\* the same sequence of ids.
C8_CatalogDeterminedByTopics ==
    \A r1 \in catalogRuns, r2 \in catalogRuns :
        FirstSeen(FlatTopics(r1.files)) = FirstSeen(FlatTopics(r2.files)) =>
            Len(r1.ids) = Len(r2.ids) /\ r1.ids = r2.ids

\* Two runs on different file lists that carry the same topics.
C8_Witness ==
    \E r1 \in catalogRuns, r2 \in catalogRuns :
        /\ r1.files # r2.files
        /\ Len(r1.files) > 0
        /\ FirstSeen(FlatTopics(r1.files)) = FirstSeen(FlatTopics(r2.files))

\* Whether resource r matches query q in title, description, topic or a tag.
MatchesQuery(r, q) ==
    \/ Trim(q) = <<>>
    \/ MatchesText(r, q)
    \/ ("tags" \in DOMAIN r /\ MatchesTag(r, q))

\* C9: for every catalog, the default one included, the filtered list is
\* exactly the resources that match the selected category (any when 'all')
\* and the search query; it is empty when none matches, and no error occurs.
C9_FilterIsConjunctive ==
    (route = "/resources" /\ ~resIsLoading) =>
        /\ ~crashed
        /\ filteredResources =
               SelectSeq(resources,
                         LAMBDA r : /\ (selectedCategory = "all" \/ r.category = selectedCategory)
                                    /\ MatchesQuery(r, searchQuery))

RECURSIVE SumOfPoints(_)
SumOfPoints(qs) == IF qs = <<>> THEN 0 ELSE Points(Head(qs)) + SumOfPoints(Tail(qs))

\* C1: the score never decreases across a submitAnswer (handleAnswer) call
\* and never exceeds the sum of the point values of the loaded questions
\* (points, or 1 for a question without points).
C1_ScoreMonotoneAndBounded ==
    /\ [](score <= SumOfPoints(questions))
    /\ [][lastOp' = "handleAnswer" => score' >= score]_vars

\* A session in which the score has reached the sum of all point values.
C1_Witness ==
    /\ lastOp = "handleAnswer" /\ currentQuestion = 1
    /\ score > 0 /\ score = SumOfPoints(questions)

\* C2: a second submitAnswer call on the current question, made before
\* advance, leaves score, transcript, selected answer and answered flag as
\* the first call left them.
C2_SecondSubmitNoEffect ==
    [][(lastOp' = "handleAnswer" /\ answerCalls >= 1) =>
          /\ score' = score
          /\ userAnswers' = userAnswers
          /\ selectedAnswer' = selectedAnswer
          /\ isAnswered' = isAnswered]_vars

\* handleAnswer has been called a second time on the same question.
C2_Witness == lastOp = "handleAnswer" /\ answerCalls = 2 /\ isAnswered

\* C3: for every difficulty that is not easy, medium or hard the load selects
\* the medium bank: the loaded bank is non-empty, equal to the medium bank,
\* and no error state is reached.
C3_UnknownDifficultyLoadsMedium ==
    (route = "/quiz" /\ ~isLoading /\ difficulty \notin {"easy", "medium", "hard"}) =>
        /\ ~crashed
        /\ questions # <<>>
        /\ \E i \in 1..Len(uploadedFiles) :
               questions = questionBank(uploadedFiles[i].topics[1]).medium

\* C4: when every question of the loaded bank was answered correctly and the
\* user advanced past the last one, onComplete got score = total,
\* total = number of questions and percentage = 100.
C4_AllCorrectIsHundredPercent ==
    (/\ lastOp = "nextQuestion" /\ showResult
     /\ Len(userAnswers) = Len(questions)
     /\ \A i \in 1..Len(userAnswers) : userAnswers[i].correct) =>
        /\ onCompleteArg # Null
        /\ onCompleteArg[1].score = onCompleteArg[1].total
        /\ onCompleteArg[1].total = Len(questions)
        /\ onCompleteArg[1].percentage = 100

\* The file name without its extension: the part before the last dot.
StripExtension(name) ==
    IF LastIndexOf(name, ".") = 0 THEN name
    ELSE SubSeq(name, 1, LastIndexOf(name, ".") - 1)

\* C10: for every accepted file, topics[0] of the emitted UploadedFile is the
\* file name with its extension stripped, whatever the number of dots in it.
C10_TopicIsNameWithoutExtension ==
    \A i \in 1..Len(uploadedFiles) :
        uploadedFiles[i].topics[1] = StripExtension(uploadedFiles[i].name)

\* The media types the intake accepts: pdf, docx and plain text.
AllowedMediaTypes ==
    { "application/pdf",
      "application/vnd.openxmlformats-officedocument.wordprocessingml.document",
      "text/plain" }

C12_QuizPageEmptyState ==
    (route = "/quiz" /\ Len(uploadedFiles) = 0) =>
        /\ QuizPageView(uploadedFiles) = "No Content Available"
        /\ ~crashed
        /\ loadTimers = <<>>
        /\ isLoading /\ questions = <<>> /\ currentQuestion = 0 /\ score = 0
        /\ userAnswers = <<>> /\ ~isAnswered /\ ~showResult

\* The quiz page was entered with nothing uploaded.
C12_Witness == route = "/quiz" /\ Len(uploadedFiles) = 0 /\ lastOp = "navigate"

\* C13 as stated: with zero uploaded files, each of the quiz, question-paper
\* and resources pages shows the explicit empty-state view (with its Upload
\* File button) instead of its component.
C13_EveryPageHasEmptyState ==
    Len(uploadedFiles) = 0 =>
        /\ route = "/quiz" => QuizPageView(uploadedFiles) = "No Content Available"
        /\ route = "/question-paper" => PaperPageView(uploadedFiles) = "No Content Available"
        /\ route = "/resources" => ResourcesPageView(uploadedFiles) = "No Content Available"

\* C13 as amended: with zero uploaded files, the quiz and question-paper
\* pages show the explicit empty-state view instead of their component (no
\* paper is generated or being generated), while the resources page shows the
\* Resources component, which lists the one static default resource once its
\* load timer has fired; none of the three pages crashes.
C13_EmptyStateOrDefaultCatalog ==
    Len(uploadedFiles) = 0 =>
        /\ ~crashed
        /\ route = "/quiz" => QuizPageView(uploadedFiles) = "No Content Available"
        /\ route = "/question-paper" =>
              /\ PaperPageView(uploadedFiles) = "No Content Available"
              /\ paper = Null /\ ~isGenerating /\ genTimers = <<>>
        /\ route = "/resources" =>
              /\ ResourcesPageView(uploadedFiles) = "Resources"
              /\ resIsLoading \/ Ids(resources) = <<"default-1">>

\* The resources page has loaded its default catalog with nothing uploaded.
C13_Witness ==
    /\ route = "/resources" /\ Len(uploadedFiles) = 0
    /\ ~resIsLoading /\ Ids(filteredResources) = <<"default-1">>

\* The steps made by a timer whose component has been unmounted.
StaleTimerOps ==
    { "staleUploadTimer", "stalePaperTimer", "staleQuizTimer", "staleResourcesTimer" }

\* C14: every timer a component starts is cancelled when the component is
\* torn down: once a page has been left, none of its pending timers fires a
\* state update or an upward callback.
C14_TimersCancelledOnTeardown == [][lastOp' \notin StaleTimerOps]_vars

\* C15: the quiz-suggestion modal opens only by the 5 s timer that the latest
\* change of the uploaded-files list started, with the list non-empty and
\* unchanged since; every change of the list cancels the pending timer and
\* starts one afresh, so at most one suggestion timer is pending at any time,
\* and none is pending once the shell has been unmounted.
C15_SuggestionTimerIsSingleAndFresh ==
    /\ [](Len(suggestionTimer) <= 1)
    /\ [](crashed => suggestionTimer = <<>>)
    /\ [][uploadedFiles' # uploadedFiles => suggestionTimer' = <<uploadedFiles'>>]_vars
    /\ [][(~showQuizSuggestion /\ showQuizSuggestion') =>
             /\ lastOp' = "suggestionTimer"
             /\ suggestionTimer # <<>>
             /\ Head(suggestionTimer) = uploadedFiles
             /\ Len(uploadedFiles) > 0]_vars

\* The modal opened after a second upload had replaced the timer of the first.
C15_Witness ==
    /\ lastOp = "suggestionTimer" /\ showQuizSuggestion
    /\ Len(uploadedFiles) = 2 /\ suggestionTimer = <<>>

\* C16: a displayed toast stays visible for its full 3 s unless it is closed
\* by hand: the dismissal timer that hides a visible toast is the timer that
\* toast started. Timers fire first-in first-out and the visible toast is the
\* one raised last, so the timer that fires is the visible toast's own only
\* when it is the one timer pending.
C16_ToastKeepsItsFullDuration ==
    [][(lastOp' = "toastTimer" /\ showToast.show) => toastTimers = 1]_vars

\* C17: every displayed toast is eventually dismissed: from any state with the
\* toast visible, when pending timers fire, a state with the toast hidden and
\* its message cleared is reached, with no need of a user action.
C17_ToastEventuallyDismissed ==
    showToast.show ~> (~showToast.show /\ showToast.message = "")

\* A toast was raised by an upload and its timer has hidden it.
C17_Witness ==
    /\ lastOp = "toastTimer" /\ ~showToast.show /\ showToast.message = ""
    /\ toastTimers = 0 /\ Len(uploadedFiles) > 0

\* C18: with a time limit configured, the remaining time goes down by one per
\* timer tick and only while the quiz is not complete (the timer is pending
\* whenever the quiz is not complete and time remains, and the remaining time
\* does not change while the quiz stays complete); the tick that reaches zero
\* moves the quiz to complete and calls onComplete with the timeUp flag,
\* whether or not the current question has been answered.
C18_CountdownForcesCompletion ==
    /\ [][lastOp' = "tick" =>
             ~showResult /\ timeRemaining' = Some(timeRemaining[1] - 1)]_vars
    /\ []((quizTimeLimit # Null /\ ~showResult /\ timeRemaining[1] > 0) => tickTimer)
    /\ []((showResult /\ ~crashed) => ~tickTimer)
    /\ [][(showResult /\ showResult') => timeRemaining' = timeRemaining]_vars
    /\ [][(lastOp' = "tick" /\ timeRemaining' = Some(0)) =>
             /\ showResult'
             /\ onCompleteArg' # Null
             /\ onCompleteArg'[1] = [score |-> score, total |-> Len(questions), timeUp |-> TRUE]]_vars
    /\ [](timeRemaining = Some(0) => showResult)

\* Time ran out on the second question with its answer submitted.
C18_Witness ==
    /\ lastOp = "tick" /\ timeRemaining = Some(0) /\ showResult
    /\ currentQuestion = 1 /\ isAnswered
    /\ onCompleteArg # Null /\ "timeUp" \in DOMAIN onCompleteArg[1]

\* C19: in every state of a loaded, not yet complete quiz session, the index
\* of the current question is below the number of questions, and each
\* question is answered at most once: the transcript has no two entries for
\* one question and its length is currentQuestion plus one when the current
\* question is answered, currentQuestion otherwise.
C19_IndexInRangeAndOneAnswerEach ==
    (route = "/quiz" /\ ~isLoading /\ ~showResult) =>
        /\ currentQuestion < Len(questions)
        /\ Len(userAnswers) = currentQuestion + (IF isAnswered THEN 1 ELSE 0)
        /\ \A i \in 1..Len(userAnswers), j \in 1..Len(userAnswers) :
              i # j => userAnswers[i].question # userAnswers[j].question

\* C20: every load of the question bank resets the session counters: right
\* after generateQuestions has installed the bank, currentQuestion = 0,
\* score = 0, the transcript is empty and the current question is
\* unanswered, also when the bank is reloaded in the middle of a session.
C20_LoadResetsSessionCounters ==
    [][lastOp' = "generateQuestions" =>
          /\ currentQuestion' = 0
          /\ score' = 0
          /\ userAnswers' = <<>>
          /\ ~isAnswered']_vars

\* C21: nextQuestion, when more questions remain, increments currentQuestion
\* by exactly one, clears the answered flag, the selected answer and the
\* explanation flag and leaves score and transcript unchanged (the quiz stays
\* incomplete and onComplete is not called); on the last question it moves to
\* complete and calls onComplete once with score, total = number of
\* questions, the transcript and percentage = round(100 * score / total),
\* the integer p with p - 1/2 <= 100 * score / total < p + 1/2.
C21_AdvanceOrComplete ==
    [][lastOp' = "nextQuestion" =>
          IF currentQuestion + 1 < Len(questions)
          THEN /\ currentQuestion' = currentQuestion + 1
               /\ ~isAnswered' /\ selectedAnswer' = <<>> /\ ~showExplanation'
               /\ score' = score /\ userAnswers' = userAnswers
               /\ ~showResult' /\ onCompleteCalls' = onCompleteCalls
          ELSE /\ showResult'
               /\ currentQuestion' = currentQuestion
               /\ score' = score /\ userAnswers' = userAnswers
               /\ onCompleteCalls' = onCompleteCalls + 1
               /\ onCompleteArg' # Null
               /\ DOMAIN onCompleteArg'[1] = {"score", "total", "userAnswers", "percentage"}
               /\ onCompleteArg'[1].score = score
               /\ onCompleteArg'[1].total = Len(questions)
               /\ onCompleteArg'[1].userAnswers = userAnswers
               /\ LET p == onCompleteArg'[1].percentage
                      t == Len(questions)
                  IN  2 * t * p - t <= 200 * score /\ 200 * score < 2 * t * p + t]_vars

\* The last question was advanced past with one right and one wrong answer.
C21_Witness ==
    /\ lastOp = "nextQuestion" /\ showResult /\ currentQuestion = 1
    /\ Len(userAnswers) = 2 /\ userAnswers[1].correct /\ ~userAnswers[2].correct
    /\ onCompleteArg # Null /\ onCompleteArg[1].score = score /\ score > 0

\* C22: resetQuiz returns the session to the first question with score 0, an
\* empty transcript, unanswered, not complete and the remaining time equal to
\* the configured limit (the countdown, if any, running again); it leaves the loaded
\* question bank and the loading flag unchanged and starts no bank load.
C22_ResetRestartsSession ==
    [][lastOp' = "resetQuiz" =>
          /\ currentQuestion' = 0 /\ score' = 0 /\ userAnswers' = <<>>
          /\ ~isAnswered' /\ selectedAnswer' = <<>> /\ ~showExplanation'
          /\ ~showResult'
          /\ timeRemaining' = quizTimeLimit /\ quizTimeLimit' = quizTimeLimit
          /\ quizTimeLimit # Null => tickTimer'
          /\ questions' = questions /\ isLoading' = isLoading
          /\ loadTimers' = loadTimers
          /\ ~crashed']_vars

\* A quiz that was completed by the countdown with an answer given has been
\* reset while a load started by a topic change was still pending.
C22_Witness ==
    /\ lastOp = "resetQuiz" /\ timeRemaining = quizTimeLimit /\ tickTimer
    /\ onCompleteArg # Null /\ "timeUp" \in DOMAIN onCompleteArg[1]
    /\ onCompleteArg[1].score > 0
    /\ loadTimers # <<>> /\ questions # <<>>

\* C23: a handleAnswer call on an unanswered question grades the answer: for
\* a question with options it is correct exactly when it equals the
\* question's answer, for a free-response question exactly when the trimmed
\* input is non-empty; a correct answer adds the question's points (1 when it
\* has none) to the score, an incorrect one leaves the score unchanged; in
\* both cases exactly one transcript entry (question text, answer, verdict)
\* is appended and the question is marked answered.
C23_GradingOfSubmittedAnswer ==
    [][(lastOp' = "handleAnswer" /\ ~isAnswered) =>
          LET q == questions[currentQuestion + 1]
              a == selectedAnswer'
              correct == IF "options" \in DOMAIN q THEN a = q.answer ELSE Trim(a) # <<>>
              value == IF "points" \in DOMAIN q THEN q.points ELSE 1
          IN  /\ score' = IF correct THEN score + value ELSE score
              /\ userAnswers' = Append(userAnswers,
                     [question |-> q.text, userAnswer |-> a, correct |-> correct])
              /\ isAnswered'
              /\ currentQuestion' = currentQuestion /\ questions' = questions]_vars

\* A blank free-response answer was graded incorrect and scored nothing, then
\* the right option of the choice question scored its one point.
C23_Witness ==
    /\ lastOp = "handleAnswer" /\ isAnswered /\ Len(userAnswers) = 2
    /\ userAnswers[1].userAnswer = <<" ", " ">> /\ ~userAnswers[1].correct
    /\ userAnswers[2].correct /\ score = 1

\* The types of the cluster of resources synthesized for one topic.
ClusterTypes == <<"video", "video", "article", "article", "interactive", "book">>

\* C24: the catalog a run of generateResources sets for a non-empty
\* uploaded-files list holds, for each unique topic of the files in first-seen
\* order, exactly six resources of that topic in the order 2 videos,
\* 2 articles, 1 interactive, 1 book (its length is 6 times the number of
\* unique topics); for an empty list it is the single static default
\* resource, whose topic is 'Study Skills'.
C24_CatalogShape ==
    [][lastOp' = "generateResources" =>
          LET files == Head(resTimers)
              T == FirstSeen(FlatTopics(files))
          IN  IF Len(files) > 0
              THEN /\ Len(resources') = 6 * Len(T)
                   /\ \A k \in 1..Len(T), n \in 1..6 :
                         /\ resources'[6 * (k - 1) + n].topic = T[k]
                         /\ resources'[6 * (k - 1) + n].type = ClusterTypes[n]
                         /\ resources'[6 * (k - 1) + n].category = ClusterTypes[n]
              ELSE /\ Len(resources') = 1
                   /\ resources'[1].id = "default-1"
                   /\ resources'[1].topic = <<"S","t","u","d","y"," ","S","k","i","l","l","s">>]_vars

\* The catalog of two files with different topics: twelve resources, the
\* second cluster on the second topic.
C24_Witness ==
    /\ lastOp = "generateResources" /\ Len(uploadedFiles) = 2
    /\ Len(resources) = 12
    /\ resources[7].type = "video" /\ resources[12].type = "book"
    /\ resources[7].topic = uploadedFiles[2].topics[1]
    /\ resources[1].topic = uploadedFiles[1].topics[1]

\* Whether a is b with some elements left out, the others in their order.
RECURSIVE IsSubsequence(_, _)
IsSubsequence(a, b) ==
    IF a = <<>> THEN TRUE
    ELSE IF b = <<>> THEN FALSE
    ELSE IF Head(a) = Head(b) THEN IsSubsequence(Tail(a), Tail(b))
    ELSE IsSubsequence(a, Tail(b))

\* C25: a change of the category or of the search query never changes the
\* base catalog; in every state of the resources page with the effects done,
\* the filtered list is a subsequence of the catalog and is the catalog
\* filtered by the current category and query (the resources of the selected
\* category, any when 'all', that match the query).
C25_FilterRecomputedCatalogKept ==
    /\ [][lastOp' \in {"setSelectedCategory", "setSearchQuery"} => resources' = resources]_vars
    /\ [](route = "/resources" =>
            /\ IsSubsequence(filteredResources, resources)
            /\ filteredResources =
                   SelectSeq(resources,
                             LAMBDA r : /\ MatchesQuery(r, searchQuery)
                                        /\ selectedCategory \in {"all", r.category}))

\* The elements of a sequence.
Range(s) == { s[i] : i \in 1..Len(s) }

\* C26: the favorites are a set of resource ids: the list never holds an id
\* twice; a toggleFavorite call flips the membership of its id and of no
\* other, so that toggling the same id twice restores the membership before
\* the first of the two calls; a toggle changes neither the catalog, the
\* selected category nor the filtered list, and a change of the category or
\* of the query never changes the favorites.
C26_FavoritesAreASet ==
    /\ [](\A i \in 1..Len(favorites), j \in 1..Len(favorites) :
              i # j => favorites[i] # favorites[j])
    /\ [][lastOp' = "toggleFavorite" =>
             /\ (lastToggle'[1].id \in Range(favorites')) = (lastToggle'[1].id \notin Range(favorites))
             /\ Range(favorites') \ {lastToggle'[1].id} = Range(favorites) \ {lastToggle'[1].id}
             /\ resources' = resources
             /\ selectedCategory' = selectedCategory
             /\ filteredResources' = filteredResources]_vars
    /\ [][(lastOp' = "toggleFavorite" /\ lastToggle # Null
             /\ lastToggle'[1].id = lastToggle[1].id) =>
             Range(favorites') = Range(lastToggle[1].before)]_vars
    /\ [][lastOp' \in {"setSelectedCategory", "setSearchQuery"} => favorites' = favorites]_vars

\* An id was toggled off again while another favorite stayed, after the
\* category had been changed.
C26_Witness ==
    /\ lastOp = "toggleFavorite" /\ selectedCategory = "article"
    /\ lastToggle[1].id \in Range(lastToggle[1].before)
    /\ lastToggle[1].id \notin Range(favorites)
    /\ favorites # <<>>

\* C27: whenever the uploaded-files list changes while the Resources is
\* mounted, a recomputation is started and the catalog eventually equals the
\* catalog generated from the latest list; when a recomputation installs its
\* result, no recomputation for an earlier list is still pending, so an
\* earlier one never overwrites the result of a later one.
C27_CatalogFollowsLatestList ==
    /\ [][(uploadedFiles' # uploadedFiles /\ route = "/resources" /\ ~crashed) =>
             resTimers' = Append(resTimers, uploadedFiles')]_vars
    /\ [][lastOp' = "generateResources" =>
             \A i \in 1..Len(resTimers') : Len(resTimers'[i]) > Len(Head(resTimers))]_vars
    /\ (lastOp = "uploadTimer" /\ route = "/resources" /\ ~crashed)
           ~> (resources = Catalog(uploadedFiles))

\* The fileData of the uploads still in flight, oldest first: those of
\* unmounted uploaders, then those of the mounted one.
PendingUploads ==
    LET old == SelectSeq(orphans, LAMBDA o : o.kind = "upload")
    IN  [i \in 1..Len(old) |-> FileData(old[i].file[1])]
            \o [i \in 1..Len(upTimers) |-> FileData(upTimers[i])]

\* C28: every accepted submission leads, when its 2 s timer fires and not
\* before, to exactly one onFileUpload call, which appends its fileData to
\* the shell's list, followed by onTopicDetected with that file's topics[0]:
\* the list followed by the uploads in flight is at all times the accepted
\* submissions in their order, the list and the detected topic change at timer
\* steps only, one appended file per step, and every accepted submission is
\* eventually in the list at the position of its submission.
C28_EachAcceptedFileDeliveredOnce ==
    /\ [](uploadedFiles \o PendingUploads = accepted)
    /\ [][lastOp' = "handleFileChange" =>
             uploadedFiles' = uploadedFiles /\ detectedTopic' = detectedTopic]_vars
    /\ [][(uploadedFiles' # uploadedFiles \/ detectedTopic' # detectedTopic) =>
             /\ lastOp' \in {"uploadTimer", "staleUploadTimer"}
             /\ Len(uploadedFiles') = Len(uploadedFiles) + 1
             /\ SubSeq(uploadedFiles', 1, Len(uploadedFiles)) = uploadedFiles
             /\ detectedTopic' = uploadedFiles'[Len(uploadedFiles')].topics[1]]_vars
    /\ \A k \in 1..MaxFiles :
          (Len(accepted) >= k) ~> (Len(uploadedFiles) >= k /\ uploadedFiles[k] = accepted[k])

\* The first of two different files submitted in a row has been delivered
\* while the second is still in flight.
C28_Witness ==
    /\ lastOp = "uploadTimer" /\ Len(uploadedFiles) = 1 /\ Len(upTimers) = 1
    /\ Len(accepted) = 2 /\ accepted[1] # accepted[2]
    /\ uploadedFiles[1] = accepted[1]
    /\ detectedTopic = accepted[1].topics[1]

\* C29: the shell's uploaded-files list is append-only: every step leaves the
\* entries it had in place and unmodified (no entry is removed, reordered or
\* changed, the click on a card's delete button included), so its length
\* never decreases.
C29_UploadedFilesAppendOnly ==
    [][/\ Len(uploadedFiles') >= Len(uploadedFiles)
       /\ SubSeq(uploadedFiles', 1, Len(uploadedFiles)) = uploadedFiles]_vars

\* The delete button of a card was clicked with two files uploaded, and both
\* accepted files are still in the list.
C29_Witness ==
    /\ lastOp = "deleteClick" /\ Len(uploadedFiles) = 2
    /\ uploadedFiles = accepted

\* C30: a paper is produced only by the timer that fires 3 s after a generate
\* request (the request itself leaves the paper as it is and sets the
\* generating flag); no generation is started while one is in flight, so at
\* most one generation timer is pending at any time; the timer that fires
\* replaces the previous paper wholesale by the paper of its request and
\* clears the generating flag.
C30_OneGenerationAtATime ==
    /\ [](Len(genTimers) + OrphanCount("paper") <= 1)
    /\ [][lastOp' = "generatePaper" =>
             /\ Len(genTimers) + OrphanCount("paper") = 0
             /\ paper' = paper /\ isGenerating']_vars
    /\ [][paper' # paper => (lastOp' = "paperTimer" \/ paper' = Null)]_vars
    /\ [][lastOp' = "paperTimer" =>
             /\ paper' = Some(SamplePaper(Head(genTimers)))
             /\ ~isGenerating' /\ genTimers' = <<>>]_vars

\* The operations that change the configuration of the generator.
ConfigurationOps == {"setQuestionCount", "setDifficulty", "setTimeLimit", "handleTopicToggle"}

\* C31: the paper a generation produces reflects the configuration (difficulty,
\* question counts, time limit, selected topics) as it was when Generate was
\* clicked: a request records the configuration of its render, a change of
\* the configuration changes neither the pending request nor the paper, the
\* paper the timer produces is the one of the recorded configuration, and its
\* totalMarks is the sum of its own sections' totalMarks.
C31_PaperOfRequestedConfiguration ==
    [][ /\ lastOp' = "generatePaper" =>
              /\ Len(genTimers') = Len(genTimers) + 1
              /\ LET request == genTimers'[Len(genTimers')]
                 IN  /\ request.difficulty = paperDifficulty
                     /\ request.questionCount = questionCount
                     /\ request.timeLimit = timeLimit
                     /\ request.selectedTopics = selectedTopics
        /\ lastOp' \in ConfigurationOps => paper' = paper /\ genTimers' = genTimers
        /\ lastOp' = "paperTimer" =>
              LET request == Head(genTimers)
                  p == paper'[1]
                  topics == request.selectedTopics
              IN  /\ paper' # Null
                  /\ p.difficulty = request.difficulty
                  /\ p.timeLimit = request.timeLimit
                  /\ p.subject = IF topics = <<>>
                                 THEN <<"G","e","n","e","r","a","l"," ","S","t","u","d","i","e","s">>
                                 ELSE Join(topics, <<","," ">>)
                  /\ p.totalMarks = request.questionCount.mcq + 3 * request.questionCount.short
                                        + 10 * request.questionCount.long
                  /\ p.totalMarks = SumOfSectionTotals(p.sections)
                  /\ p.sections[1].totalMarks = request.questionCount.mcq
                  /\ p.sections[2].totalMarks = 3 * request.questionCount.short
                  /\ p.sections[3].totalMarks = 10 * request.questionCount.long
                  /\ \A i \in 1..3 : \A j \in 1..Len(p.sections[i].questions) :
                         /\ p.sections[i].questions[j].difficulty = request.difficulty
                         /\ topics # <<>> => p.sections[i].questions[j].about = topics[1]
      ]_vars

\* A paper produced after the difficulty, the time limit and a count were all
\* changed during the 3 s delay: it shows none of the changes.
C31_Witness ==
    /\ paper # Null /\ lastOp = "paperTimer"
    /\ paper[1].difficulty # paperDifficulty
    /\ paper[1].timeLimit # timeLimit
    /\ producedCount[1] # questionCount
    /\ paper[1].totalMarks # calculateTotalMarks(questionCount)
    /\ paper[1].totalMarks = SumOfSectionTotals(paper[1].sections)

\* C32: the completion callback is invoked exactly once per completion: a
\* step that completes the quiz (the result view comes up), whether by
\* advancing past the last question or by the countdown reaching zero, makes
\* exactly one onComplete call.
C32_OneCallPerCompletion ==
    [][ (~showResult /\ showResult') => onCompleteCalls' = onCompleteCalls + 1 ]_vars

\* C33: the quiz never completes before its question bank has loaded: the
\* result state is never entered while the bank is loading, and onComplete is
\* never called with total = 0.
C33_NoCompletionBeforeLoad ==
    /\ showResult => ~isLoading
    /\ onCompleteArg # Null => onCompleteArg[1].total # 0

\* C34: once a quiz session is complete its score and transcript do not
\* change and it stays complete until resetQuiz is invoked; in the loading
\* and in the complete state no answer submission and no advance happens,
\* and score, transcript, current question and answered flag keep their
\* values unless the step is the reset.
C34_CompleteSessionIsFrozen ==
    [][ /\ (showResult /\ lastOp' # "resetQuiz") =>
               /\ showResult'
               /\ score' = score
               /\ userAnswers' = userAnswers
        /\ ((isLoading \/ showResult) /\ lastOp' # "resetQuiz") =>
               /\ lastOp' \notin {"handleAnswer", "nextQuestion", "typeAnswer"}
               /\ score' = score
               /\ userAnswers' = userAnswers
               /\ currentQuestion' = currentQuestion
               /\ isAnswered' = isAnswered
               /\ selectedAnswer' = selectedAnswer
      ]_vars

\* A complete session with a score and a transcript in which a later step (a
\* reload of the bank after the topic changed, or the Finish button) has
\* happened.
C34_Witness ==
    /\ showResult /\ ~isLoading
    /\ score > 0 /\ userAnswers # <<>>
    /\ lastOp \in {"generateQuestions", "finish"}
    /\ onCompleteCalls > 0

\* C35: in every reachable shell state with a non-empty uploaded-files list
\* the detected topic is topics[0] of the most recently appended file; with an
\* empty list the detected topic is the empty string.
C35_TopicOfLatestFile ==
    IF uploadedFiles = <<>>
    THEN detectedTopic = <<>>
    ELSE detectedTopic = uploadedFiles[Len(uploadedFiles)].topics[1]

\* Two files with different topics uploaded one after the other: the topic
\* is the second one's.
C35_Witness ==
    /\ Len(uploadedFiles) = 2
    /\ uploadedFiles[1].topics[1] # uploadedFiles[2].topics[1]
    /\ detectedTopic = uploadedFiles[2].topics[1]
    /\ lastOp \in {"uploadTimer", "staleUploadTimer"}

\* C36: the loading flag of the upload intake is true in every state in which
\* at least one accepted upload is still in flight.
C36_LoadingWhileUploadInFlight ==
    upTimers # <<>> => upIsLoading

\* C37: accepting the quiz suggestion closes the modal and moves the route to
\* /quiz without an error; rejecting it closes the modal and leaves the route
\* unchanged; in both cases the modal does not open again until the
\* uploaded-files list changes again: a dismissal starts no timer, the modal
\* opens only when the suggestion timer fires, no timer is pending after an
\* opening, and a timer is started only by a change of the list.
C37_AcceptGoesToQuizRejectStays ==
    [][ /\ lastOp' = "handleQuizAccept" =>
              /\ ~showQuizSuggestion'
              /\ route' = "/quiz"
              /\ uncaught' = uncaught
              /\ ~crashed'
              /\ suggestionTimer' = suggestionTimer
        /\ lastOp' = "handleQuizReject" =>
              /\ ~showQuizSuggestion'
              /\ route' = route
              /\ uncaught' = uncaught
              /\ ~crashed'
              /\ suggestionTimer' = suggestionTimer
        /\ (~showQuizSuggestion /\ showQuizSuggestion') => lastOp' = "suggestionTimer"
        /\ lastOp' = "suggestionTimer" => suggestionTimer' = <<>>
        /\ (suggestionTimer' # <<>> /\ suggestionTimer' # suggestionTimer) =>
              uploadedFiles' # uploadedFiles
      ]_vars

=============================================================================
